---- MODULE Spec2Model ----
(***************************************************************************)
(* MagmaPlayer (src/unnamed/part_003, the library's MagmaPlayer.js): the   *)
(* playback controller, its shared clock, the dual-source load pipeline    *)
(* and the destroy path, as a state machine.                               *)
(*                                                                         *)
(* Units.  Clock values (performance.now()) and media positions are in     *)
(* milliseconds.  The clock advances one frame (16 ms) at a time and the   *)
(* media elements advance 16 ms at a time, each on its own, so the two     *)
(* sources drift against each other and against the clock.  Playback       *)
(* rates are in hundredths (100 is 1.0x).                                  *)
(*                                                                         *)
(* The player object is the record `player` (one field per `this.` field   *)
(* the model needs, under the source's name), the two HTMLVideoElements    *)
(* are `media`, the closures of the two load promises are `loads`, the     *)
(* pending timers and callbacks are `timers`.  Handlers are operators from *)
(* a world record to a world record, so that a handler that calls another  *)
(* (renderLoop -> pause -> emit) is the composition the code runs.         *)
(***************************************************************************)
EXTENDS Integers, Sequences, FiniteSets, TLC

\* ------------------------------------------------------------- constants
SYNC_THRESHOLD == 16       \* renderLoop: 0.016 s
PLAY_SYNC_THRESHOLD == 100 \* play(): 0.1 s
frameInterval == 16        \* 1000 / targetFPS, targetFPS = 62.5
TIMEUPDATE_INTERVAL == 16  \* renderLoop: timeupdate throttle
MIN_RATE == 25             \* setPlaybackRate: 0.25
MAX_RATE == 400            \* setPlaybackRate: 4.0
Frame == 16                \* one step of the clock and of a media element, in ms
VideoDuration == 48        \* duration of both media files, in ms (3 frames)
VideoWidth == 64           \* natural width of a decodable file
DefaultCanvasWidth == 300  \* width of a fresh <canvas>
ClockOrigin == 1600        \* performance.now() at construction
DURATION_EPSILON == 100    \* validateVideos: durations may differ by 0.1 s
LongDuration == 160        \* duration of a file that is longer than the other, in ms
NarrowWidth == 32          \* natural width of a file that is narrower than the other

\* ------------------------------------------------------------- bounds
MaxTicks == 2              \* clock steps of a behaviour of a loaded player
MaxCalls == 2              \* calls of the public API on a loaded player
MaxRepeatTicks == 5        \* clock steps of a behaviour with a finite repeat target
MaxRepeatCalls == 1        \* calls of the public API in such a behaviour
MaxLoadTicks == 1          \* clock steps of a behaviour that starts at construction
MaxLoadCalls == 2          \* calls of the public API in such a behaviour
MaxInits == 2              \* runs of _doInit (load sequences) per player
MaxPendingSeeks == 2       \* seek() calls whose `seeked` listeners are still registered
MaxValidateTicks == 1      \* clock steps of a behaviour that loads two unequal files
MaxValidateCalls == 1      \* calls of the public API in such a behaviour
MaxBackendTicks == 2       \* clock steps of a behaviour with GPU failures
MaxBackendCalls == 1       \* calls of the public API in such a behaviour
MaxContextLosses == 1      \* webglcontextlost events per player
MaxSeekTicks == 1          \* clock steps of a behaviour with seeks
MaxSeekCalls == 2          \* calls of the public API in such a behaviour
MaxSettingsTicks == 1      \* clock steps of a behaviour with calls of the setters
MaxSettingsCalls == 3      \* calls of the public API in such a behaviour
MaxPermissionTicks == 1    \* clock steps of a behaviour with rejected play requests
MaxPermissionCalls == 2    \* calls of the public API in such a behaviour
MaxReplayTicks == 5        \* clock steps of a behaviour that ends, is reset and replayed
MaxReplayCalls == 2        \* calls of the public API in such a behaviour
MaxDetaches == 1           \* removals of the canvas from the document per player
MaxSurfaceTicks == 2       \* clock steps of a behaviour with a detached or hidden canvas
MaxSurfaceCalls == 1       \* calls of the public API in such a behaviour
MaxErrorCalls == 1         \* calls of the public API in a behaviour with a throwing onError
MaxSubscribers == 3        \* callbacks registered with on() at one time
MaxEventCalls == 2         \* calls of play() and pause() in a behaviour with subscribers
MaxPositionTicks == 2      \* clock steps of a behaviour that reports positions
MaxPositionCalls == 2      \* calls of the public API in such a behaviour
MaxReentrantCalls == 2     \* calls of the public API in a behaviour with re-entrant subscribers
MaxComponentCalls == 2     \* calls the component's host makes (startPlayback, pausePlayback)
MaxComponentTicks == 1     \* clock steps in a behaviour of the component

\* ------------------------------------------------------------- inputs
SeekTargets == {0, 32}
RateInputs == {100, 200}
RepeatInputs == {0 - 1, 0, 1, 2}
RepeatTargets == {1, 2}
SizeInputs == {0}
Widths == {VideoWidth, 0}
ErrorCodes == {0, 4}
Durations == {VideoDuration, LongDuration}
SeekRates == {MIN_RATE, 100, MAX_RATE}
FrameWidths == {VideoWidth, NarrowWidth}
RateBoundary == {1, 100, 1000}
CountInputs == {0 - 1, 0, 1, 5}
ReplayRates == {200, MAX_RATE}

NULL == 0 - 1
V == {"color", "mask"}
Other(v) == IF v = "color" THEN "mask" ELSE "color"
Min(a, b) == IF a < b THEN a ELSE b
Max(a, b) == IF a > b THEN a ELSE b
Abs(a) == IF a < 0 THEN 0 - a ELSE a

VARIABLES
  player,    \* the MagmaPlayer instance: its `this.` fields
  media,     \* the two HTMLVideoElements the player holds
  loads,     \* closure state of the two load promises of the current _doInit
  promises,  \* outcome of each _doInit promise, by id
  timers,    \* pending timers, intervals and deferred callbacks
  now,       \* performance.now()
  out,       \* what the last step did outwards: emit() calls, callbacks, frames
  ghost,     \* history counters used by the properties only
  component  \* the MagmaPlayerComponent of the Angular binding, if one holds the player

vars == <<player, media, loads, promises, timers, now, out, ghost, component>>

\* ------------------------------------------------------------- the media element
NoElement ==
  [currentTime |-> 0, seeking |-> FALSE, paused |-> TRUE, readyState |-> 0,
   loop |-> FALSE, duration |-> 0, videoWidth |-> 0, error |-> 0,
   playbackRate |-> 100]

\* HTMLMediaElement: assigning currentTime starts a seek; the seeking attribute is
\* true from the assignment until the element reports `seeked`.  With no data
\* (readyState 0) only the default start position is recorded.
ElSetCurrentTime(el, t) ==
  IF el.readyState = 0
  THEN [el EXCEPT !.currentTime = t]
  ELSE [el EXCEPT !.currentTime = Max(0, Min(t, el.duration)), !.seeking = TRUE]

ElEnded(el) == el.readyState > 0 /\ el.currentTime >= el.duration /\ ~el.loop

\* HTMLMediaElement.play(): a granted request clears paused (and restarts an ended
\* element from 0); a request the platform rejects leaves the element paused.
ElPlay(el, allowed) ==
  IF ~allowed THEN el
  ELSE IF ElEnded(el)
       THEN [el EXCEPT !.paused = FALSE, !.currentTime = 0, !.seeking = TRUE]
       ELSE [el EXCEPT !.paused = FALSE]

ElPause(el) == [el EXCEPT !.paused = TRUE]

\* ------------------------------------------------------------- world
World == [p |-> player, m |-> media, l |-> loads, pr |-> promises,
          t |-> timers, g |-> ghost, o |-> <<>>, c |-> component]

\* ------------------------------------------------------------- the Angular component
\* MagmaPlayerComponent: _player is whether it holds a player,
\* _stateUpdateInterval whether the 500 ms interval is set, the rest are its
\* state signals.
NoComponent ==
  [_player |-> FALSE, _stateUpdateInterval |-> FALSE, isReady |-> FALSE,
   isPlaying |-> FALSE, currentTime |-> 0, duration |-> 0,
   playbackRate |-> 100, loop |-> TRUE]

_updateStateSignals(w) ==
  IF ~w.c._player THEN w
  ELSE
    LET got == w.p.isInitialized /\ w.p.colorVideo IN
    [w EXCEPT !.c.isPlaying = w.p._isPlaying,
              !.c.currentTime = IF got THEN w.m["color"].currentTime ELSE 0,
              !.c.duration = IF got THEN w.m["color"].duration ELSE 0,
              !.c.playbackRate = w.p.playbackRate,
              !.c.loop = w.p.loop]

\* the interval callback: refresh when a ready player is held, otherwise clear
\* the interval
stateUpdateInterval(w) ==
  IF w.c._player /\ w.p.isInitialized /\ w.p._readyEmitted
  THEN [_updateStateSignals(w) EXCEPT
          !.o = Append(@, [e |-> "_updateStateSignals", t |-> 0, code |-> ""])]
  ELSE [w EXCEPT !.c._stateUpdateInterval = FALSE]

\* the callbacks the component passes to the player and registers with on(),
\* for one emitted event or callback ev; the refresh inside onReady reads the
\* player as the step leaves it
componentHears(w, ev) ==
  CASE ev.e = "onReady" -> _updateStateSignals([w EXCEPT !.c.isReady = TRUE])
    [] ev.e = "play" -> [w EXCEPT !.c.isPlaying = TRUE]
    [] ev.e \in {"pause", "ended"} -> [w EXCEPT !.c.isPlaying = FALSE]
    [] ev.e \in {"timeupdate", "seeked"} -> [w EXCEPT !.c.currentTime = ev.t]
    [] OTHER -> w

RECURSIVE componentListens(_, _)
componentListens(w, i) ==
  IF i > Len(w.o) THEN w
  ELSE componentListens(componentHears(w, w.o[i]), i + 1)

Commit(w) ==
  /\ component' = IF w.c._player THEN componentListens(w, 1).c ELSE w.c
  /\ player' = w.p
  /\ media' = w.m
  /\ loads' = w.l
  /\ promises' = w.pr
  /\ timers' = w.t
  /\ ghost' = w.g
  /\ out' = w.o

NoLoad == [state |-> "none", timeout |-> FALSE, poll |-> FALSE,
           errListener |-> FALSE, grace |-> FALSE]

\* ------------------------------------------------------------- event system
\* One entry of `out`: an emit() call (e is the event name), a callback call
\* ("onReady", "onError") or a composited frame ("renderWebGL", "renderCanvas2D");
\* t is the position an event carries, code the error code it carries.
Ev(e, t, code) == [e |-> e, t |-> t, code |-> code]

\* the subscribers of an event up to and including the first that throws: a
\* forEach whose callback is not wrapped stops there
invokeUntilThrow(subscribers, event) ==
  LET subs == SelectSeq(subscribers, LAMBDA s : s.event = event)
      stop == IF \E i \in 1..Len(subs) : subs[i].throws
              THEN CHOOSE i \in 1..Len(subs) :
                     subs[i].throws /\ \A j \in 1..(i - 1) : ~subs[j].throws
              ELSE Len(subs)
  IN [i \in 1..stop |-> Ev("subscriber", subs[i].id, event)]

\* eventListeners[event].forEach: the callbacks of the event are called in the
\* order of their registration, each inside its own try/catch, so one that
\* throws does not end the loop.  The entry of a call carries the callback's
\* identity in t and the event in code.
invokeAll(subscribers, event) ==
  LET subs == SelectSeq(subscribers, LAMBDA s : s.event = event)
  IN [i \in 1..Len(subs) |-> Ev("subscriber", subs[i].id, event)]

emit(w, event, t, code) ==
  [w EXCEPT !.o = Append(@, Ev(event, t, code)) \o invokeAll(w.p.subscribers, event),
            !.g.readyEmits = IF event = "ready" THEN @ + 1 ELSE @,
            !.g.gpuReported = @ \/ (code = "WEBGL_INIT_FAILED")]

\* a call of a caller-supplied callback (onReady, onError)
callback(w, name, code) ==
  [w EXCEPT !.o = Append(@, Ev(name, 0, code)),
            !.g.onReadyCalls = IF name = "onReady" THEN @ + 1 ELSE @,
            !.g.gpuReported = @ \/ (code = "WEBGL_INIT_FAILED")]

on(w) == [w EXCEPT !.p.eventListeners = TRUE]

\* on(event, callback) with a callback the model follows: id is its identity,
\* throws whether it throws when called
subscribe(w, event, id, throws) ==
  [w EXCEPT !.p.eventListeners = TRUE,
            !.p.subscribers = Append(@, [event |-> event, id |-> id, throws |-> throws])]

\* off(event, callback): every registration of the callback for the event goes
unsubscribe(w, event, id) ==
  [w EXCEPT !.p.subscribers = SelectSeq(@, LAMBDA s : ~(s.event = event /\ s.id = id))]

\* ------------------------------------------------------------- pause
\* `this.colorVideo.pause()` throws on a null source; the catch swallows it and
\* the pause event is not emitted.
pause(w) ==
  LET w1 == [w EXCEPT !.p._isPlaying = FALSE] IN
  IF ~w1.p.colorVideo THEN w1
  ELSE LET w2 == [w1 EXCEPT !.m["color"] = ElPause(@)] IN
       IF ~w2.p.maskVideo THEN w2
       ELSE emit([w2 EXCEPT !.m["mask"] = ElPause(@)], "pause", 0, "")

\* ------------------------------------------------------------- compositor
renderWebGL(w) ==
  [w EXCEPT !.o = Append(@, Ev("renderWebGL", 0, "")), !.g.painted = TRUE]

renderCanvas2D(w) ==
  [w EXCEPT !.o = Append(@, Ev("renderCanvas2D", 0, "")), !.g.painted = TRUE]

\* ------------------------------------------------------------- renderLoop
\* JavaScript's %: the sign of the result is the sign of the dividend.
JsMod(a, b) == IF a >= 0 THEN a % b ELSE 0 - ((0 - a) % b)

\* ((clockNow - sharedClockStart) / 1000) * playbackRate, in ms
elapsedSeconds(clockNow, sharedClockStart, playbackRate) ==
  ((clockNow - sharedClockStart) * playbackRate) \div 100

\* performance.now() - (time * 1000) / playbackRate
clockStartFor(time, playbackRate) == now - ((time * 100) \div playbackRate)

\* every re-derivation of the clock epoch from a media position:
\* this.sharedClockStart = performance.now() - (time * 1000) / this.playbackRate.
\* Under the new epoch the elapsed time is `time`, so the cycle index restarts.
setClock(w, time) ==
  [w EXCEPT !.p.sharedClockStart = clockStartFor(time, w.p.playbackRate),
            !.g.epochCycle = 0,
            !.g.edge = @ \/ (time >= VideoDuration)]

\* this.colorVideo.duration || this.maskVideo.duration || Infinity (0 stands for
\* an unknown duration; every file of the model has a finite one)
videoDurationOf(w) ==
  IF w.m["color"].duration # 0 THEN w.m["color"].duration ELSE w.m["mask"].duration

\* the sync step without its third part: each source is nudged to the target
\* and the mask is never pinned to the color source
syncVideosNoPin(w, targetTime) ==
  LET c0 == w.m["color"]
      w1 == IF Abs(c0.currentTime - targetTime) > SYNC_THRESHOLD /\ ~c0.seeking
            THEN [w EXCEPT !.m["color"] = ElSetCurrentTime(@, targetTime)]
            ELSE w
      k0 == w1.m["mask"]
  IN IF Abs(k0.currentTime - targetTime) > SYNC_THRESHOLD /\ ~k0.seeking
     THEN [w1 EXCEPT !.m["mask"] = ElSetCurrentTime(@, targetTime)]
     ELSE w1

\* the sync step of a tick: nudge each source to the target, then pin the mask to
\* the color source and re-derive the clock
syncVideos(w, targetTime) ==
  LET c0 == w.m["color"]
      w1 == IF Abs(c0.currentTime - targetTime) > SYNC_THRESHOLD /\ ~c0.seeking
            THEN [w EXCEPT !.m["color"] = ElSetCurrentTime(@, targetTime)]
            ELSE w
      k0 == w1.m["mask"]
      w2 == IF Abs(k0.currentTime - targetTime) > SYNC_THRESHOLD /\ ~k0.seeking
            THEN [w1 EXCEPT !.m["mask"] = ElSetCurrentTime(@, targetTime)]
            ELSE w1
      masterTime == w2.m["color"].currentTime
  IN IF /\ Abs(masterTime - w2.m["mask"].currentTime) > SYNC_THRESHOLD
        /\ ~w2.m["color"].seeking
        /\ ~w2.m["mask"].seeking
     THEN setClock([w2 EXCEPT !.m["mask"] = ElSetCurrentTime(@, masterTime)], masterTime)
     ELSE w2

\* the end of a tick: timeupdate (throttled), then the frame
presentFrame(w, targetTime) ==
  LET w1 == IF now - w.p.lastTimeUpdate >= TIMEUPDATE_INTERVAL
            THEN [emit(w, "timeupdate", targetTime, "") EXCEPT !.p.lastTimeUpdate = now]
            ELSE w
      steady == ~w1.m["color"].seeking /\ ~w1.m["mask"].seeking
  IN IF w1.p.gl /\ steady THEN renderWebGL(w1)
     ELSE IF w1.p.ctx /\ steady THEN renderCanvas2D(w1)
     ELSE w1

\* the sync and render part of a tick without the floor of the target at 0
syncThenPresentNoFloor(w, targetTime) ==
  presentFrame(syncVideos(w, targetTime), targetTime)

syncThenPresent(w, targetTime) ==
  LET t == IF targetTime < 0 THEN 0 ELSE targetTime
  IN presentFrame(syncVideos(w, t), t)

\* the terminal branch without its pause(): ended is emitted and nothing stops
endPlaybackNoPause(w, cyclesSeen) ==
  emit([w EXCEPT !.g.traversals = @ + cyclesSeen, !.g.epochCycle = 0,
                 !.g.ends = @ + 1,
                 !.g.run = IF @ = "replay" THEN "replayEnded" ELSE "ended"],
       "ended", 0, "")

\* the terminal branch of a tick: pause both sources and emit ended
endPlayback(w, cyclesSeen) ==
  emit(pause([w EXCEPT !.g.traversals = @ + cyclesSeen, !.g.epochCycle = 0,
                       !.g.ends = @ + 1,
                       !.g.run = IF @ = "replay" THEN "replayEnded" ELSE "ended"]),
       "ended", 0, "")

\* the repeat policy of a tick, for a finite duration; `allowed` is the platform's
\* answer to the play() requests of a cycle wrap
repeatStep(w, elapsed, videoDuration, allowed) ==
  LET rt == w.p.repeatTarget IN
  IF rt = 0 - 1 THEN
    syncThenPresent(w, JsMod(elapsed, videoDuration))
  ELSE IF rt = 0 THEN endPlayback(w, 0)
  ELSE IF rt = 1 THEN
    IF Min(elapsed, videoDuration) >= videoDuration
    THEN endPlayback(w, 1)
    ELSE syncThenPresent(w, Min(elapsed, videoDuration))
  ELSE
    LET forwardElapsed == Abs(elapsed)
        currentCycle == forwardElapsed \div videoDuration
        cycleTime == forwardElapsed % videoDuration
    \* (the traversals counted at the end are those up to the target: what the
    \* clock ran past the target before this tick is not a traversal)
    IN IF currentCycle >= rt
       THEN endPlayback(w, rt - w.g.epochCycle)
       ELSE LET w1 == [w EXCEPT !.g.traversals = @ + (currentCycle - w.g.epochCycle),
                                !.g.epochCycle = currentCycle]
                w2 == IF currentCycle > w1.p.repeatCount
                      THEN LET w3 == [w1 EXCEPT !.p.repeatCount = currentCycle] IN
                           IF w3.p._isPlaying /\ (w3.m["color"].paused \/ w3.m["mask"].paused)
                           THEN [w3 EXCEPT !.m["color"] = ElPlay(@, allowed),
                                           !.m["mask"] = ElPlay(@, allowed)]
                           ELSE w3
                      ELSE w1
            IN syncThenPresent(w2, cycleTime)


\* the branch of a tick that finds the canvas out of the document, warning
\* whether the player is playing or not
canvasRemovedAlways(w) ==
  callback(emit(pause(w), "warning", 0, "CANVAS_REMOVED"), "onError", "CANVAS_REMOVED")

\* the branch of a tick that finds the canvas out of the document.  The call of
\* onError is the last statement before the return and is not guarded: what it
\* throws leaves the render loop, and start() when start() made the call.
canvasRemoved(w) ==
  IF w.p._isPlaying
  THEN callback(emit(pause(w), "warning", 0, "CANVAS_REMOVED"),
                "onError", "CANVAS_REMOVED")
  ELSE w

\* the call of renderLoop on w ends with an exception of the onError callback
renderLoopThrows(w) ==
  w.p.canvas /\ ~w.p.canvasConnected /\ w.p._isPlaying /\ w.p.onErrorThrows

\* one scheduler callback that does not test isVisible
renderLoopIgnoresVisibility(w, allowed) ==
  LET w0 == [w EXCEPT !.p.animationFrameId = TRUE] IN
  IF w0.p.canvas /\ ~w0.p.canvasConnected THEN canvasRemoved(w0)
  ELSE IF now - w0.p.lastFrameTime < frameInterval THEN w0
  ELSE
    LET w1 == [w0 EXCEPT !.p.lastFrameTime =
                  now - ((now - w0.p.lastFrameTime) % frameInterval)]
    IN
    IF ~w1.p._isPlaying \/ ~w1.p.isInitialized THEN w1
    ELSE IF \/ w1.m["color"].readyState < 2
            \/ w1.m["mask"].readyState < 2
            \/ w1.p.canvasWidth = 0 THEN w1
    ELSE IF w1.p.isSeeking THEN w1
    ELSE
      LET w2 == IF w1.p.sharedClockStart = NULL \/ w1.p.sharedClockStart = 0
                THEN [w1 EXCEPT !.p.sharedClockStart = now]
                ELSE w1
          elapsed == elapsedSeconds(now, w2.p.sharedClockStart, w2.p.playbackRate)
          videoDuration == videoDurationOf(w2)
      IN IF videoDuration > 0
         THEN repeatStep(w2, elapsed, videoDuration, allowed)
         ELSE syncThenPresent(w2, elapsed)

\* one scheduler callback that does not test the seeking flag
renderLoopNoSeekGuard(w, allowed) ==
  LET w0 == [w EXCEPT !.p.animationFrameId = TRUE] IN
  IF w0.p.canvas /\ ~w0.p.canvasConnected THEN canvasRemoved(w0)
  ELSE IF now - w0.p.lastFrameTime < frameInterval THEN w0
  ELSE
    LET w1 == [w0 EXCEPT !.p.lastFrameTime =
                  now - ((now - w0.p.lastFrameTime) % frameInterval)]
    IN
    IF ~w1.p._isPlaying \/ ~w1.p.isInitialized \/ ~w1.p.isVisible THEN w1
    ELSE IF \/ w1.m["color"].readyState < 2
            \/ w1.m["mask"].readyState < 2
            \/ w1.p.canvasWidth = 0 THEN w1
    ELSE
      LET w2 == IF w1.p.sharedClockStart = NULL \/ w1.p.sharedClockStart = 0
                THEN [w1 EXCEPT !.p.sharedClockStart = now]
                ELSE w1
          elapsed == elapsedSeconds(now, w2.p.sharedClockStart, w2.p.playbackRate)
          videoDuration == videoDurationOf(w2)
      IN IF videoDuration > 0
         THEN repeatStep(w2, elapsed, videoDuration, allowed)
         ELSE syncThenPresent(w2, elapsed)

\* one scheduler callback.  canvasConnected is canvas.isConnected.
renderLoop(w, allowed) ==
  LET w0 == [w EXCEPT !.p.animationFrameId = TRUE] IN
  IF w0.p.canvas /\ ~w0.p.canvasConnected THEN canvasRemoved(w0)
  ELSE IF now - w0.p.lastFrameTime < frameInterval THEN w0
  ELSE
    LET w1 == [w0 EXCEPT !.p.lastFrameTime =
                  now - ((now - w0.p.lastFrameTime) % frameInterval)]
    IN
    IF ~w1.p._isPlaying \/ ~w1.p.isInitialized \/ ~w1.p.isVisible THEN w1
    ELSE IF \/ w1.m["color"].readyState < 2
            \/ w1.m["mask"].readyState < 2
            \/ w1.p.canvasWidth = 0 THEN w1
    ELSE IF w1.p.isSeeking THEN w1
    ELSE
      LET w2 == IF w1.p.sharedClockStart = NULL \/ w1.p.sharedClockStart = 0
                THEN [w1 EXCEPT !.p.sharedClockStart = now]
                ELSE w1
          elapsed == elapsedSeconds(now, w2.p.sharedClockStart, w2.p.playbackRate)
          videoDuration == videoDurationOf(w2)
      IN IF videoDuration > 0
         THEN repeatStep(w2, elapsed, videoDuration, allowed)
         ELSE syncThenPresent(w2, elapsed)

\* ------------------------------------------------------------- start
start(w, allowed) ==
  LET w1 == [w EXCEPT !.p.isInitialized = TRUE,
                      !.m["color"] = ElSetCurrentTime(@, 0),
                      !.m["mask"] = ElSetCurrentTime(@, 0),
                      !.p.sharedClockStart = now,
                      !.g.epochCycle = 0, !.g.traversals = 0,
                      !.g.edge = FALSE, !.g.sought = FALSE]
      w2 == IF w1.p.autoplay
            THEN [w1 EXCEPT !.p._isPlaying = TRUE,
                            !.t.playNotify = TRUE,
                            !.m["color"] = ElPlay(@, allowed),
                            !.m["mask"] = ElPlay(@, allowed),
                            !.t.startSync = TRUE]
            ELSE w1
  IN renderLoop(w2, allowed)

\* start() on w ends with an exception: that of its renderLoop call, made with
\* _isPlaying set when autoplay is on
startThrows(w) ==
  renderLoopThrows([w EXCEPT !.p._isPlaying = @ \/ w.p.autoplay])

\* setTimeout(..., 0) of start(): the deferred play notification
playNotify(w) ==
  LET w1 == [w EXCEPT !.t.playNotify = FALSE] IN
  IF w1.p._isPlaying THEN emit(w1, "play", 0, "") ELSE w1

\* the requestAnimationFrame callback start() schedules once both play() settle
startSync(w) ==
  LET w1 == [w EXCEPT !.t.startSync = FALSE] IN
  IF w1.p.colorVideo /\ w1.p.maskVideo THEN
    LET syncTime == Min(w1.m["color"].currentTime, w1.m["mask"].currentTime)
        w2 == setClock([w1 EXCEPT !.m["color"] = ElSetCurrentTime(@, syncTime),
                                  !.m["mask"] = ElSetCurrentTime(@, syncTime)],
                       syncTime)
    IN IF w2.p._isPlaying THEN emit(w2, "play", 0, "") ELSE w2
  ELSE w1

\* ------------------------------------------------------------- play
play(w, allowed) ==
  IF ~w.p.isInitialized THEN w
  ELSE IF w.p._isPlaying THEN w
  ELSE
    LET w1 == [w EXCEPT !.p._isPlaying = TRUE, !.g.pausedSeek = NULL,
                        !.g.run = IF @ = "reset" THEN "replay" ELSE "none"]
        c == w1.m["color"]
        k == w1.m["mask"]
        currentTime == IF ~c.paused \/ ~k.paused
                       THEN Min(c.currentTime, k.currentTime)
                       ELSE c.currentTime
        w2 == IF Abs(c.currentTime - currentTime) > PLAY_SYNC_THRESHOLD
              THEN [w1 EXCEPT !.m["color"] = ElSetCurrentTime(@, currentTime)]
              ELSE w1
        w3 == IF Abs(k.currentTime - currentTime) > PLAY_SYNC_THRESHOLD
              THEN [w2 EXCEPT !.m["mask"] = ElSetCurrentTime(@, currentTime)]
              ELSE w2
        w4 == setClock(w3, currentTime)
        w5 == [w4 EXCEPT !.m["color"] = ElPlay(@, allowed),
                         !.m["mask"] = ElPlay(@, allowed),
                         !.t.playCatch = IF allowed THEN @ ELSE TRUE,
                         !.t.playSync = @ \cup {currentTime}]
    IN emit(w5, "play", 0, "")

\* the .catch of the two play() promises of play(): one error event per source
playCatch(w) ==
  emit(emit([w EXCEPT !.t.playCatch = FALSE], "error", 0, "NotAllowedError"),
       "error", 0, "NotAllowedError")

\* the requestAnimationFrame callback play() schedules once both play() settle;
\* currentTime is the position play() captured
playSync(w, currentTime) ==
  LET w1 == [w EXCEPT !.t.playSync = @ \ {currentTime}] IN
  IF w1.p.colorVideo /\ w1.p.maskVideo /\ w1.p._isPlaying THEN
    LET colorTime == w1.m["color"].currentTime
        maskTime == w1.m["mask"].currentTime
        actualTime == Min(colorTime, maskTime)
    IN IF \/ Abs(colorTime - maskTime) > SYNC_THRESHOLD
          \/ Abs(actualTime - currentTime) > SYNC_THRESHOLD
       THEN setClock([w1 EXCEPT !.m["color"] = ElSetCurrentTime(@, actualTime),
                                !.m["mask"] = ElSetCurrentTime(@, actualTime)],
                     actualTime)
       ELSE w1
  ELSE w1

\* ------------------------------------------------------------- seek
\* One handleSeeked closure: the position its seek() captured and the sources it
\* is still registered on ({once: true} removes it from a source when it runs).
Seeker(time) == [time |-> time, onColor |-> TRUE, onMask |-> TRUE]

\* seek() that arms no timeout
seekNoTimeout(w, time) ==
  IF ~w.p.isInitialized THEN w
  ELSE
    LET w1 == [w EXCEPT !.p.isSeeking = TRUE,
                        !.p.seekTimeout = FALSE,
                        !.m["color"] = ElSetCurrentTime(@, time),
                        !.m["mask"] = ElSetCurrentTime(@, time),
                        !.g.sought = TRUE,
                        !.g.pausedSeek = IF w.p._isPlaying THEN NULL ELSE time]
    IN [setClock(w1, time) EXCEPT !.t.seekers = Append(@, Seeker(time))]

\* seek() that leaves the clock epoch as it is
seekNoEpoch(w, time) ==
  IF ~w.p.isInitialized THEN w
  ELSE
    [w EXCEPT !.p.isSeeking = TRUE,
              !.p.seekTimeout = TRUE,
              !.m["color"] = ElSetCurrentTime(@, time),
              !.m["mask"] = ElSetCurrentTime(@, time),
              !.g.sought = TRUE,
              !.g.pausedSeek = IF w.p._isPlaying THEN NULL ELSE time,
              !.t.seekers = Append(@, Seeker(time))]

seek(w, time) ==
  IF ~w.p.isInitialized THEN w
  ELSE
    LET w1 == [w EXCEPT !.p.isSeeking = TRUE,
                        !.p.seekTimeout = TRUE,
                        !.m["color"] = ElSetCurrentTime(@, time),
                        !.m["mask"] = ElSetCurrentTime(@, time),
                        !.g.sought = TRUE,
                        !.g.pausedSeek = IF w.p._isPlaying THEN NULL ELSE time]
    IN [setClock(w1, time) EXCEPT !.t.seekers = Append(@, Seeker(time))]

\* the 1000 ms timer of seek()
seekTimeoutFired(w) == [w EXCEPT !.p.isSeeking = FALSE, !.p.seekTimeout = FALSE]

\* handleSeeked of the i-th pending seek(), run for a `seeked` event of source v
handleSeeked(w, i, v) ==
  LET sk == w.t.seekers[i]
      registered == IF v = "color" THEN sk.onColor ELSE sk.onMask
      once == IF v = "color" THEN [sk EXCEPT !.onColor = FALSE]
                             ELSE [sk EXCEPT !.onMask = FALSE]
      w1 == [w EXCEPT !.t.seekers[i] = once]
  IN IF ~registered THEN w
     ELSE IF /\ w1.m["color"].readyState >= 2
             /\ w1.m["mask"].readyState >= 2
             /\ ~w1.m["color"].seeking
             /\ ~w1.m["mask"].seeking
          THEN emit([w1 EXCEPT !.p.isSeeking = FALSE,
                               !.p.seekTimeout = FALSE,
                               !.t.seekers[i] = [sk EXCEPT !.onColor = FALSE,
                                                           !.onMask = FALSE]],
                    "seeked", sk.time, "")
          ELSE w1

RECURSIVE dispatchSeeked(_, _, _)
dispatchSeeked(w, i, v) ==
  IF i > Len(w.t.seekers) THEN w
  ELSE dispatchSeeked(handleSeeked(w, i, v), i + 1, v)

\* drop the closures that are registered nowhere any more
dropSpent(w) ==
  [w EXCEPT !.t.seekers = SelectSeq(@, LAMBDA sk : sk.onColor \/ sk.onMask)]

reset(w) ==
  seek([pause(w) EXCEPT !.p.repeatCount = 0,
                        !.g.run = IF @ = "ended" THEN "reset" ELSE "none",
                        !.g.traversals = 0],
       0)

\* ------------------------------------------------------------- rate, loop, repeat
\* setPlaybackRate that stores the rate as it is given
setPlaybackRateNoClamp(w, rate) ==
  LET r == rate
      w1 == [w EXCEPT !.p.playbackRate = r,
                      !.m["color"].playbackRate = IF w.p.colorVideo THEN r ELSE @,
                      !.m["mask"].playbackRate = IF w.p.maskVideo THEN r ELSE @]
  IN IF w1.p.isInitialized
     THEN setClock(w1, IF w1.p.colorVideo THEN w1.m["color"].currentTime ELSE 0)
     ELSE w1

setPlaybackRate(w, rate) ==
  LET r == Max(MIN_RATE, Min(MAX_RATE, rate))
      w1 == [w EXCEPT !.p.playbackRate = r,
                      !.m["color"].playbackRate = IF w.p.colorVideo THEN r ELSE @,
                      !.m["mask"].playbackRate = IF w.p.maskVideo THEN r ELSE @]
  IN IF w1.p.isInitialized
     THEN setClock(w1, IF w1.p.colorVideo THEN w1.m["color"].currentTime ELSE 0)
     ELSE w1

\* setLoop that leaves the repeat target as it is
setLoopKeepTarget(w, loop) ==
  [w EXCEPT !.p.loop = loop,
            !.m["color"].loop = IF w.p.colorVideo THEN loop ELSE @,
            !.m["mask"].loop = IF w.p.maskVideo THEN loop ELSE @]

setLoop(w, loop) ==
  [w EXCEPT !.p.loop = loop,
            !.p.repeatTarget = IF loop THEN 0 - 1 ELSE IF @ = 0 - 1 THEN 0 ELSE @,
            !.m["color"].loop = IF w.p.colorVideo THEN loop ELSE @,
            !.m["mask"].loop = IF w.p.maskVideo THEN loop ELSE @]

\* setRepeatCount that keeps the count of completed iterations
setRepeatCountKeepCounter(w, count) ==
  LET w1 == [w EXCEPT !.p.repeatTarget = count,
                      !.p.loop = (count = 0 - 1)]
      w2 == IF count = 0 /\ w1.p._isPlaying THEN pause(w1) ELSE w1
  IN [w2 EXCEPT !.m["color"].loop = IF w.p.colorVideo THEN count = 0 - 1 ELSE @,
                !.m["mask"].loop = IF w.p.maskVideo THEN count = 0 - 1 ELSE @]

\* setRepeatCount that records the target and leaves a playing player playing
setRepeatCountNoPause(w, count) ==
  [w EXCEPT !.p.repeatCount = 0,
            !.p.repeatTarget = count,
            !.p.loop = (count = 0 - 1),
            !.m["color"].loop = IF w.p.colorVideo THEN count = 0 - 1 ELSE @,
            !.m["mask"].loop = IF w.p.maskVideo THEN count = 0 - 1 ELSE @]

setRepeatCount(w, count) ==
  LET w1 == [w EXCEPT !.p.repeatCount = 0,
                      !.p.repeatTarget = count,
                      !.p.loop = (count = 0 - 1)]
      w2 == IF count = 0 /\ w1.p._isPlaying THEN pause(w1) ELSE w1
  IN [w2 EXCEPT !.m["color"].loop = IF w.p.colorVideo THEN count = 0 - 1 ELSE @,
                !.m["mask"].loop = IF w.p.maskVideo THEN count = 0 - 1 ELSE @]

\* canvas.width = width * pixelRatio (pixelRatio 1)
setSize(w, width) == [w EXCEPT !.p.canvasWidth = width]

\* ------------------------------------------------------------- destroy
\* destroy() after its first statement, the pause() call
destroyRest(w1) ==
  [w1 EXCEPT !.p.animationFrameId = FALSE,
             !.p.seekTimeout = FALSE,
             !.l["color"].timeout = IF w1.p.colorVideoLoadTimeout THEN FALSE ELSE @,
             !.l["mask"].timeout = IF w1.p.maskVideoLoadTimeout THEN FALSE ELSE @,
             !.p.colorVideoLoadTimeout = FALSE,
             !.p.maskVideoLoadTimeout = FALSE,
             !.p.visibilityObserver = FALSE,
             !.m["color"] = IF w1.p.colorVideo THEN NoElement ELSE @,
             !.m["mask"] = IF w1.p.maskVideo THEN NoElement ELSE @,
             !.t.seekers = <<>>,
             !.p.colorVideo = FALSE,
             !.p.maskVideo = FALSE,
             !.p.gl = FALSE,
             !.p.contextListeners = FALSE,
             !.p.eventListeners = FALSE,
             !.p._readyEmitted = FALSE,
             !.p._readyCallbackCalled = FALSE,
             !.p.isInitialized = FALSE,
             !.g.destroyed = TRUE,
             !.g.destroyedAt = w1.g.callsLeft,
             !.g.released = @ + (IF w1.p.colorVideo \/ w1.p.maskVideo THEN 1 ELSE 0)]

destroy(w) == destroyRest(pause(w))

\* pause() with a subscriber of `pause` that calls play() from inside the event:
\* emit() runs the subscriber before pause() returns
pauseThenHandler(w, handler, allowed) ==
  LET w1 == pause(w) IN
  IF handler = "play" /\ Len(w1.o) > Len(w.o) THEN play(w1, allowed) ELSE w1

\* destroy() on a player with such a subscriber: the subscribers are dropped at
\* the end of destroy() only, so the pause() that opens it still reaches them
destroyHandled(w, handler, allowed) ==
  destroyRest(pauseThenHandler(w, handler, allowed))

\* ------------------------------------------------------------- validateVideos
\* validateVideos without its last check, the one on the decoded format
validateVideosNoFormat(w) ==
  LET c == w.m["color"]
      k == w.m["mask"]
      w1 == IF c.videoWidth # k.videoWidth
            THEN emit(w, "error", 0, "INVALID_INPUT")
            ELSE w
      mismatch == Abs(c.duration - k.duration) > DURATION_EPSILON
  IN IF mismatch /\ w1.p.strictDuration
       THEN [w |-> w1, thrown |-> "DURATION_MISMATCH"]
     ELSE [w |-> IF mismatch
                 THEN [w1 EXCEPT !.p.duration = Min(c.duration, k.duration)]
                 ELSE w1,
           thrown |-> ""]

\* validateVideos that treats every player as non-strict: a duration mismatch
\* never throws
validateVideosNoStrict(w) ==
  LET c == w.m["color"]
      k == w.m["mask"]
      w1 == IF c.videoWidth # k.videoWidth
            THEN emit(w, "error", 0, "INVALID_INPUT")
            ELSE w
      mismatch == Abs(c.duration - k.duration) > DURATION_EPSILON
      w2 == IF mismatch
            THEN [w1 EXCEPT !.p.duration = Min(c.duration, k.duration)]
            ELSE w1
  IN IF c.videoWidth = 0 \/ k.videoWidth = 0
     THEN [w |-> w2, thrown |-> "VIDEO_LOAD_FAILED"]
     ELSE [w |-> w2, thrown |-> ""]

\* The result: the world after the checks and the code of the error thrown ("" for
\* none).  A dimension mismatch is emitted and does not throw.
validateVideos(w) ==
  LET c == w.m["color"]
      k == w.m["mask"]
      w1 == IF c.videoWidth # k.videoWidth
            THEN emit(w, "error", 0, "INVALID_INPUT")
            ELSE w
      mismatch == Abs(c.duration - k.duration) > DURATION_EPSILON
  IN IF mismatch /\ w1.p.strictDuration
       THEN [w |-> w1, thrown |-> "DURATION_MISMATCH"]
     ELSE LET w2 == IF mismatch
                    THEN [w1 EXCEPT !.p.duration = Min(c.duration, k.duration)]
                    ELSE w1
          IN IF c.videoWidth = 0 \/ k.videoWidth = 0
             THEN [w |-> w2, thrown |-> "VIDEO_LOAD_FAILED"]
             ELSE [w |-> w2, thrown |-> ""]

\* autoSize with no fixedSize and no maxSize, pixelRatio 1
updateCanvasSize(w) ==
  LET width == w.m["color"].videoWidth IN
  IF width = 0 THEN w
  ELSE IF w.p.canvasWidth # width
       THEN emit([w EXCEPT !.p.canvasWidth = width], "sizechange", 0, "")
       ELSE w

\* io: IntersectionObserver exists; shown: what the first checkVisibility reads
setupVisibilityObserver(w, io, shown) ==
  IF io /\ w.p.canvas
  THEN [w EXCEPT !.p.visibilityObserver = TRUE]
  ELSE [w EXCEPT !.t.visPoll = TRUE, !.p.isVisible = shown]

\* ------------------------------------------------------------- _doInit
\* the catch block of _doInit, and the finally of init() behind it
initCatch(w, code) ==
  LET w1 == callback(emit(w, "error", 0, code), "onError", code) IN
  [w1 EXCEPT !.pr[w.g.inits] = code, !.p._initializing = FALSE]

\* _doInit after `await Promise.all(...)` resolved
initContinue(w, allowed, io, shown) ==
  LET v == validateVideos(w) IN
  IF v.thrown # "" THEN initCatch(v.w, v.thrown)
  ELSE
    LET w0 == setupVisibilityObserver(updateCanvasSize(v.w), io, shown)
        w1 == start(w0, allowed)
        w2 == [w1 EXCEPT !.p.isInitialized = TRUE]
        w3 == IF ~w2.p._readyEmitted
              THEN emit([w2 EXCEPT !.p._readyEmitted = TRUE], "ready", 0, "")
              ELSE w2
        w4 == IF ~w3.p._readyCallbackCalled
              THEN callback([w3 EXCEPT !.p._readyCallbackCalled = TRUE], "onReady", "")
              ELSE w3
    \* an exception that leaves start() is caught by the catch block of _doInit
    \* as a generic error
    IN IF startThrows(w0) THEN initCatch(w1, "VIDEO_LOAD_FAILED")
       ELSE [w4 EXCEPT !.pr[w.g.inits] = "resolved", !.p._initializing = FALSE]

setLoaded(w, v) ==
  IF v = "color" THEN [w EXCEPT !.p.colorVideoLoaded = TRUE]
                 ELSE [w EXCEPT !.p.maskVideoLoaded = TRUE]

isLoaded(w, v) == IF v = "color" THEN w.p.colorVideoLoaded ELSE w.p.maskVideoLoaded

hasVideo(w, v) == IF v = "color" THEN w.p.colorVideo ELSE w.p.maskVideo

\* what follows the settling of one load promise: Promise.all resolves when both
\* have resolved and rejects with the first rejection
afterSettle(w, allowed, io, shown) ==
  IF w.g.inits = 0 \/ w.pr[w.g.inits] # "pending" THEN w
  ELSE IF \E v \in V : w.l[v].state \in {"VIDEO_LOAD_TIMEOUT", "VIDEO_LOAD_FAILED"}
       THEN initCatch(w, w.l[CHOOSE v \in V :
                               w.l[v].state \in {"VIDEO_LOAD_TIMEOUT", "VIDEO_LOAD_FAILED"}].state)
  ELSE IF \A v \in V : w.l[v].state = "ok"
       THEN initContinue(w, allowed, io, shown)
  ELSE w

\* clearTimeoutAndResolve (the guard on `resolved` is the caller's)
clearTimeoutAndResolve(w, v) ==
  IF w.l[v].state # "pending" THEN w
  ELSE setLoaded([w EXCEPT !.l[v].state = "ok", !.l[v].timeout = FALSE], v)

cleanupAndResolve(w, v) ==
  clearTimeoutAndResolve([w EXCEPT !.l[v].poll = FALSE], v)

clearTimeoutAndReject(w, v, code) ==
  IF w.l[v].state # "pending" THEN w
  ELSE [w EXCEPT !.l[v].state = code, !.l[v].timeout = FALSE]

\* the 30 s timer without its re-check of the source: it rejects whenever the
\* promise is still pending
loadTimeoutNoRecheck(w, v) ==
  LET w1 == [w EXCEPT !.l[v].timeout = FALSE] IN
  IF w1.l[v].state = "pending"
  THEN [w1 EXCEPT !.l[v].state = "VIDEO_LOAD_TIMEOUT"]
  ELSE w1

\* the 30 s timer of one load promise
loadTimeout(w, v) ==
  LET w1 == [w EXCEPT !.l[v].timeout = FALSE] IN
  IF \/ w1.p.isInitialized
     \/ isLoaded(w1, v)
     \/ (hasVideo(w1, v) /\ w1.m[v].readyState >= 2)
  THEN IF w1.l[v].state = "pending"
       THEN setLoaded([w1 EXCEPT !.l[v].state = "ok"], v)
       ELSE w1
  ELSE IF w1.l[v].state = "pending"
       THEN [w1 EXCEPT !.l[v].state = "VIDEO_LOAD_TIMEOUT"]
       ELSE w1

\* checkAndResolve: the loadeddata / canplay listeners
checkAndResolve(w, v) ==
  IF hasVideo(w, v) /\ w.m[v].readyState >= 2 THEN cleanupAndResolve(w, v) ELSE w

\* one run of the 100 ms readiness poll
loadPoll(w, v) ==
  IF w.l[v].state # "pending" THEN [w EXCEPT !.l[v].poll = FALSE]
  ELSE checkAndResolve(w, v)

\* the once-listener for `error` of one load promise
loadErrorListener(w, v) ==
  [w EXCEPT !.l[v].poll = FALSE, !.l[v].errListener = FALSE, !.l[v].grace = TRUE]

\* the 100 ms grace timer without its re-check of the source: it rejects
\* whenever the promise is still pending
errorGraceNoRecheck(w, v) ==
  LET w1 == [w EXCEPT !.l[v].grace = FALSE] IN
  IF w1.l[v].state # "pending" THEN w1
  ELSE clearTimeoutAndReject(w1, v, "VIDEO_LOAD_FAILED")

\* the 100 ms grace timer the error listener starts
errorGrace(w, v) ==
  LET w1 == [w EXCEPT !.l[v].grace = FALSE] IN
  IF w1.l[v].state # "pending" THEN w1
  ELSE IF hasVideo(w1, v) /\ w1.m[v].readyState >= 2 THEN cleanupAndResolve(w1, v)
  ELSE IF hasVideo(w1, v) /\ w1.m[v].error # 0
       THEN clearTimeoutAndReject(w1, v, "VIDEO_LOAD_FAILED")
  ELSE w1

\* canvas.getContext: a canvas hands out contexts of one kind only
getContextGL(w, glAvail) == glAvail /\ w.p.canvasContext \in {"none", "webgl"}

getContext2D(w) == w.p.canvasContext \in {"none", "2d"}

\* canvas.getContext("2d") on a canvas that would hand out a 2d context whatever
\* context it has handed out before
take2DAnyCanvas(w) == [w EXCEPT !.p.ctx = TRUE]

take2D(w) ==
  IF getContext2D(w) THEN [w EXCEPT !.p.ctx = TRUE, !.p.canvasContext = "2d"]
  ELSE [w EXCEPT !.p.ctx = FALSE]

\* the catch block of renderWebGL: a draw call threw; the player asks the canvas
\* for a 2d context if it holds none, and keeps this.gl
renderWebGLError(w) ==
  LET w1 == [w EXCEPT !.o = Append(@, Ev("renderError", 0, ""))] IN
  IF ~w1.p.ctx THEN take2D(w1) ELSE w1

\* shaderOK: both shaders compile and the program links
initWebGL(w, shaderOK) ==
  IF ~w.p.gl THEN w
  ELSE IF shaderOK THEN w
  ELSE take2D([w EXCEPT !.p.gl = FALSE, !.g.gpuFailed = TRUE])

\* ------------------------------------------------------------- context loss
\* webglcontextlost: the handler drops the context
handleContextLoss(w) == [w EXCEPT !.p.gl = FALSE]

\* webglcontextrestored.  A canvas whose context is a WebGL context returns that
\* context from getContext again, so glAvail is TRUE whenever the event fires.
handleContextRestore(w, glAvail, shaderOK) ==
  IF ~w.p.useWebGL THEN w
  ELSE IF getContextGL(w, glAvail)
       THEN initWebGL([w EXCEPT !.p.gl = TRUE, !.p.canvasContext = "webgl"], shaderOK)
       ELSE take2D([w EXCEPT !.p.gl = FALSE, !.g.gpuFailed = TRUE])

NewElement(w) ==
  [NoElement EXCEPT !.loop = w.p.loop, !.playbackRate = w.p.playbackRate]

PendingLoad == [state |-> "pending", timeout |-> TRUE, poll |-> TRUE,
                errListener |-> TRUE, grace |-> FALSE]

\* _doInit up to its await
_doInit(w, glAvail, shaderOK) ==
  LET w1 == [w EXCEPT !.p.colorVideo = TRUE, !.p.maskVideo = TRUE,
                      !.m = [v \in V |-> NewElement(w)],
                      !.p.colorVideoLoaded = FALSE, !.p.maskVideoLoaded = FALSE,
                      !.p.colorVideoLoadTimeout = FALSE,
                      !.p.maskVideoLoadTimeout = FALSE,
                      !.l = [v \in V |-> NoLoad],
                      !.t.seekers = <<>>,
                      !.g.inits = @ + 1, !.g.pairsCreated = @ + 1,
                      !.pr[w.g.inits + 1] = "pending"]
  IN IF ~w1.p.canvas THEN initCatch(w1, "VIDEO_LOAD_FAILED")
     ELSE
       LET w2 == IF w1.p.useWebGL
                 THEN IF getContextGL(w1, glAvail)
                      THEN [w1 EXCEPT !.p.gl = TRUE, !.p.canvasContext = "webgl",
                                      !.p.contextListeners = TRUE]
                      ELSE [w1 EXCEPT !.p.gl = FALSE, !.g.gpuFailed = TRUE]
                 ELSE w1
           w3 == IF w2.p.gl THEN initWebGL(w2, shaderOK) ELSE take2D(w2)
       IN [w3 EXCEPT !.l = [v \in V |-> PendingLoad],
                     !.p.colorVideoLoadTimeout = TRUE,
                     !.p.maskVideoLoadTimeout = TRUE]

\* init() without its guard on an initialization in flight
initNoGuard(w, glAvail, shaderOK) ==
  IF w.p.isInitialized THEN [w EXCEPT !.g.returned = 0]
  ELSE LET id == w.g.inits + 1
           w1 == [w EXCEPT !.p._initializing = TRUE, !.p._initPromise = id,
                           !.g.returned = id]
       IN _doInit(w1, glAvail, shaderOK)

init(w, glAvail, shaderOK) ==
  IF w.p._initializing
  THEN [w EXCEPT !.g.returned = w.p._initPromise, !.g.joined = TRUE]
  ELSE IF w.p.isInitialized THEN [w EXCEPT !.g.returned = 0]
  ELSE LET id == w.g.inits + 1
           w1 == [w EXCEPT !.p._initializing = TRUE, !.p._initPromise = id,
                           !.g.returned = id]
       IN _doInit(w1, glAvail, shaderOK)

\* ------------------------------------------------------------- _initializeCanvas
\* onError is called first and is not guarded: when it throws, the emit that
\* follows it is not reached
canvasError(w) ==
  LET w1 == callback(w, "onError", "INVALID_INPUT") IN
  IF w.p.onErrorThrows THEN w1 ELSE emit(w1, "error", 0, "INVALID_INPUT")

\* one run of checkCanvas: found is whether the selector or getter now yields a
\* canvas, expired whether canvasTimeout has passed
checkCanvas(w, found, expired, glAvail, shaderOK) ==
  LET w1 == [w EXCEPT !.t.canvasPoll = FALSE] IN
  IF found THEN init([w1 EXCEPT !.p.canvas = TRUE], glAvail, shaderOK)
  ELSE IF ~expired THEN [w1 EXCEPT !.t.canvasPoll = TRUE]
  ELSE canvasError(w1)

_initializeCanvas(w, glAvail, shaderOK) ==
  IF w.p.canvas THEN init(w, glAvail, shaderOK)
  ELSE IF w.p.waitForCanvas THEN checkCanvas(w, FALSE, FALSE, glAvail, shaderOK)
  ELSE canvasError(w)

\* ------------------------------------------------------------- construction
\* the fields the constructor sets, before it calls _initializeCanvas
NewPlayer(canvas, waitForCanvas, autoplay, useWebGL) ==
  [canvas |-> canvas, waitForCanvas |-> waitForCanvas, autoplay |-> autoplay,
   useWebGL |-> useWebGL, strictDuration |-> FALSE,
   colorVideo |-> FALSE, maskVideo |-> FALSE, gl |-> FALSE, ctx |-> FALSE,
   animationFrameId |-> FALSE, sharedClockStart |-> NULL,
   _isPlaying |-> FALSE, isInitialized |-> FALSE, isSeeking |-> FALSE,
   seekTimeout |-> FALSE, lastFrameTime |-> 0, lastTimeUpdate |-> 0,
   isVisible |-> TRUE, _readyEmitted |-> FALSE, _readyCallbackCalled |-> FALSE,
   _initializing |-> FALSE, _initPromise |-> 0,
   playbackRate |-> 100, loop |-> TRUE, eventListeners |-> FALSE,
   repeatCount |-> 0, repeatTarget |-> 0 - 1, duration |-> 0,
   colorVideoLoaded |-> FALSE, maskVideoLoaded |-> FALSE,
   colorVideoLoadTimeout |-> FALSE, maskVideoLoadTimeout |-> FALSE,
   visibilityObserver |-> FALSE,
   \* the canvas element: canvas.width, canvas.isConnected, its context kind
   canvasWidth |-> DefaultCanvasWidth, canvasConnected |-> TRUE,
   canvasContext |-> "none", contextLost |-> FALSE,
   \* the webglcontextlost / webglcontextrestored listeners are registered
   contextListeners |-> FALSE,
   \* the caller's onError callback throws whenever it is called
   onErrorThrows |-> FALSE,
   \* the callbacks registered with on() that the model follows, in the order
   \* of their registration
   subscribers |-> <<>>]

NoTimers ==
  [canvasPoll |-> FALSE, playNotify |-> FALSE, startSync |-> FALSE,
   playSync |-> {}, playCatch |-> FALSE, visPoll |-> FALSE, seekers |-> <<>>]

NoGhost ==
  [readyEmits |-> 0, onReadyCalls |-> 0, inits |-> 0, pairsCreated |-> 0,
   callsLeft |-> 0, ticksLeft |-> 0, destroyed |-> FALSE,
   destroyedAt |-> NULL, joined |-> FALSE, released |-> 0, returned |-> 0,
   traversals |-> 0, epochCycle |-> 0, ends |-> 0, edge |-> FALSE, sought |-> FALSE,
   painted |-> FALSE, gpuFailed |-> FALSE, gpuReported |-> FALSE, losses |-> 0,
   \* the position of the last seek() if the player was paused then and has not
   \* been started since
   pausedSeek |-> NULL,
   \* where the player is between one `ended` and the next: "ended" since the
   \* terminal tick, "reset" since a reset() in that state, "replay" since the
   \* play() after that reset(), "replayEnded" since the terminal tick of the replay
   run |-> "none",
   \* the times the canvas was taken out of the document
   detaches |-> 0,
   \* the option pauseWhenHidden the caller passed to the constructor
   pauseWhenHidden |-> TRUE]

NewWorld(canvas, waitForCanvas, autoplay, useWebGL) ==
  [p |-> NewPlayer(canvas, waitForCanvas, autoplay, useWebGL),
   m |-> [v \in V |-> NoElement],
   l |-> [v \in V |-> NoLoad],
   pr |-> [i \in 1..(MaxInits + 1) |-> "none"],
   t |-> NoTimers, g |-> NoGhost, o |-> <<>>, c |-> NoComponent]

\* the state when `new MagmaPlayer(...)` returns and the caller has subscribed
Constructed(canvas, waitForCanvas, autoplay, useWebGL, glAvail, shaderOK) ==
  on(_initializeCanvas(NewWorld(canvas, waitForCanvas, autoplay, useWebGL),
                       glAvail, shaderOK))

\* the variables take the world w; the behaviour may make `calls` calls and
\* `ticks` clock steps
Begin(w, calls, ticks) ==
  /\ player = w.p
  /\ media = w.m
  /\ loads = w.l
  /\ promises = w.pr
  /\ timers = w.t
  /\ ghost = [w.g EXCEPT !.callsLeft = calls, !.ticksLeft = ticks]
  /\ out = w.o
  /\ component = w.c

Init ==
  /\ now = ClockOrigin
  /\ \E canvas \in BOOLEAN, waitForCanvas \in BOOLEAN, autoplay \in BOOLEAN,
        useWebGL \in BOOLEAN, glAvail \in BOOLEAN, shaderOK \in BOOLEAN :
       Begin(Constructed(canvas, waitForCanvas, autoplay, useWebGL, glAvail, shaderOK),
             MaxLoadCalls, MaxLoadTicks)

\* ------------------------------------------------------------- the caller
Step(w) == Commit(w) /\ UNCHANGED now

\* the world as a call of the public API finds it, the call counted against the
\* budget
Caller == [World EXCEPT !.g.callsLeft = @ - 1]

Call(w) ==
  /\ ghost.callsLeft > 0
  /\ Step(w)

CallInit(glAvail, shaderOK) ==
  /\ player._initializing \/ player.isInitialized \/ ghost.inits < MaxInits
  /\ Call(init(Caller, glAvail, shaderOK))

CallPlay(allowed) == Call(play(Caller, allowed))

CallPause == Call(pause(Caller))

CallSeek(time) ==
  /\ Len(timers.seekers) < MaxPendingSeeks
  /\ Call(seek(Caller, time))

CallReset ==
  /\ Len(timers.seekers) < MaxPendingSeeks
  /\ Call(reset(Caller))

CallSetPlaybackRate(rate) == Call(setPlaybackRate(Caller, rate))

\* the events the followed callbacks are registered for, and the callbacks
SubscribedEvents == {"play", "pause"}
SubscriberIds == 1..2

CallSubscribe(event, id, throws) ==
  /\ Len(player.subscribers) < MaxSubscribers
  /\ Step(subscribe(World, event, id, throws))

CallUnsubscribe(event, id) ==
  /\ \E i \in 1..Len(player.subscribers) :
        player.subscribers[i].event = event /\ player.subscribers[i].id = id
  /\ Step(unsubscribe(World, event, id))

CallSetLoop(loop) == Call(setLoop(Caller, loop))

CallSetRepeatCount(count) == Call(setRepeatCount(Caller, count))

CallSetSize(width) == Call(setSize(Caller, width))

CallDestroy == Call(destroy(Caller))

\* what a subscriber of `pause` does inside the event
PauseHandlers == {"none", "play"}

CallDestroyHandled(handler) == Call(destroyHandled(Caller, handler, TRUE))

CallPauseHandled(handler) == Call(pauseThenHandler(Caller, handler, TRUE))

CallOn ==
  /\ ~player.eventListeners
  /\ Call(on(Caller))

\* ------------------------------------------------------------- the scheduler
Tick(allowed) ==
  /\ player.animationFrameId
  /\ Step(renderLoop(World, allowed))

PlayNotify ==
  /\ timers.playNotify
  /\ Step(playNotify(World))

StartSync ==
  /\ timers.startSync
  /\ Step(startSync(World))

PlaySync(currentTime) ==
  /\ currentTime \in timers.playSync
  /\ Step(playSync(World, currentTime))

PlayCatch ==
  /\ timers.playCatch
  /\ Step(playCatch(World))

SeekTimeout ==
  /\ player.seekTimeout
  /\ Step(seekTimeoutFired(World))

CheckCanvas(found, expired, glAvail, shaderOK) ==
  /\ timers.canvasPoll
  /\ found => (player._initializing \/ player.isInitialized \/ ghost.inits < MaxInits)
  /\ Step(checkCanvas(World, found, expired, glAvail, shaderOK))

LoadTimeout(v, allowed, io, shown) ==
  /\ loads[v].timeout
  /\ Step(afterSettle(loadTimeout(World, v), allowed, io, shown))

LoadPoll(v, allowed, io, shown) ==
  /\ loads[v].poll
  /\ Step(afterSettle(loadPoll(World, v), allowed, io, shown))

ErrorGrace(v, allowed, io, shown) ==
  /\ loads[v].grace
  /\ Step(afterSettle(errorGrace(World, v), allowed, io, shown))

VisibilityPoll(shown) ==
  /\ timers.visPoll
  /\ Step([World EXCEPT !.p.isVisible = shown])

IntersectionChange(shown) ==
  /\ player.visibilityObserver
  /\ Step([World EXCEPT !.p.isVisible = shown])

\* ------------------------------------------------------------- the GPU
\* the browser takes the WebGL context of the canvas away
ContextLost ==
  /\ player.canvasContext = "webgl"
  /\ ~player.contextLost
  /\ ghost.losses < MaxContextLosses
  /\ Step(LET w == [World EXCEPT !.p.contextLost = TRUE, !.g.losses = @ + 1]
          IN IF w.p.contextListeners THEN handleContextLoss(w) ELSE w)

\* the browser gives the context back; shaderOK: the shaders compile and link
\* on the restored context
ContextRestored(shaderOK) ==
  /\ player.contextLost
  /\ Step(LET w == [World EXCEPT !.p.contextLost = FALSE]
          IN IF w.p.contextListeners THEN handleContextRestore(w, TRUE, shaderOK) ELSE w)

\* a tick whose renderWebGL call throws while drawing
TickRenderError ==
  /\ player.animationFrameId
  /\ LET w == renderLoop(World, TRUE)
     IN /\ \E i \in 1..Len(w.o) : w.o[i].e = "renderWebGL"
        /\ Step(renderWebGLError(w))

\* ------------------------------------------------------------- the document
\* the page takes the canvas out of the document
CanvasDetached ==
  /\ player.canvas
  /\ player.canvasConnected
  /\ ghost.detaches < MaxDetaches
  /\ Step([World EXCEPT !.p.canvasConnected = FALSE, !.g.detaches = @ + 1])

\* the page puts the canvas back
CanvasAttached ==
  /\ player.canvas
  /\ ~player.canvasConnected
  /\ Step([World EXCEPT !.p.canvasConnected = TRUE])

\* ------------------------------------------------------------- the platform
\* One display frame passes.  The frame callback runs once per frame, and a
\* setTimeout(..., 0) that is pending runs before the frame is over.
ClockAdvance ==
  /\ player.animationFrameId
  /\ ghost.ticksLeft > 0
  /\ player.lastFrameTime = now
  /\ ~timers.playNotify
  /\ now' = now + Frame
  /\ out' = <<>>
  /\ ghost' = [ghost EXCEPT !.ticksLeft = @ - 1]
  /\ UNCHANGED <<player, media, loads, promises, timers, component>>

\* a source gets its data: readyState 0 -> 4; withEvent: loadeddata and canplay
\* are dispatched (a data URL may load without them)
mediaReadyWith(w, v, width, duration, withEvent, allowed, io, shown) ==
  LET w1 == [w EXCEPT !.m[v].readyState = 4,
                      !.m[v].duration = duration,
                      !.m[v].videoWidth = width,
                      !.m[v].currentTime = 0]
      w2 == IF withEvent /\ w1.l[v].state # "none" THEN checkAndResolve(w1, v) ELSE w1
  IN afterSettle(w2, allowed, io, shown)

\* the same for a file of the usual duration
mediaReady(w, v, width, withEvent, allowed, io, shown) ==
  mediaReadyWith(w, v, width, VideoDuration, withEvent, allowed, io, shown)

MediaReady(v, width, withEvent, allowed, io, shown) ==
  /\ hasVideo(World, v)
  /\ media[v].readyState = 0
  /\ Step(mediaReady(World, v, width, withEvent, allowed, io, shown))

MediaReadyWith(v, width, duration, withEvent, allowed, io, shown) ==
  /\ hasVideo(World, v)
  /\ media[v].readyState = 0
  /\ Step(mediaReadyWith(World, v, width, duration, withEvent, allowed, io, shown))

\* a source reports an error while loading
MediaError(v, code) ==
  /\ hasVideo(World, v)
  /\ media[v].readyState = 0
  /\ loads[v].errListener
  /\ Step(loadErrorListener([World EXCEPT !.m[v].error = code], v))

\* a playing source advances by one frame of its own rate
VideoProgress(v) ==
  /\ hasVideo(World, v)
  /\ ~media[v].paused
  /\ ~media[v].seeking
  /\ media[v].readyState >= 2
  /\ LET el == media[v]
         next == el.currentTime + (Frame * el.playbackRate) \div 100
     IN Step([World EXCEPT !.m[v] =
                IF next < el.duration THEN [el EXCEPT !.currentTime = next]
                ELSE IF el.loop THEN ElSetCurrentTime(el, 0)
                ELSE [el EXCEPT !.currentTime = el.duration, !.paused = TRUE]])

\* a source finishes a seek and dispatches `seeked`
SeekDone(v) ==
  /\ hasVideo(World, v)
  /\ media[v].seeking
  /\ Step(dropSpent(dispatchSeeked([World EXCEPT !.m[v].seeking = FALSE], 1, v)))

Next ==
  \/ \E g \in BOOLEAN, s \in BOOLEAN : CallInit(g, s)
  \/ \E a \in BOOLEAN : CallPlay(a)
  \/ CallPause
  \/ \E t \in SeekTargets : CallSeek(t)
  \/ CallReset
  \/ \E r \in RateInputs : CallSetPlaybackRate(r)
  \/ \E b \in BOOLEAN : CallSetLoop(b)
  \/ \E n \in RepeatInputs : CallSetRepeatCount(n)
  \/ \E x \in SizeInputs : CallSetSize(x)
  \/ CallDestroy
  \/ CallOn
  \/ \E a \in BOOLEAN : Tick(a)
  \/ PlayNotify
  \/ StartSync
  \/ \E t \in timers.playSync : PlaySync(t)
  \/ PlayCatch
  \/ SeekTimeout
  \/ \E f \in BOOLEAN, e \in BOOLEAN, g \in BOOLEAN, s \in BOOLEAN : CheckCanvas(f, e, g, s)
  \/ \E v \in V, a \in BOOLEAN, io \in BOOLEAN, sh \in BOOLEAN : LoadTimeout(v, a, io, sh)
  \/ \E v \in V, a \in BOOLEAN, io \in BOOLEAN, sh \in BOOLEAN : LoadPoll(v, a, io, sh)
  \/ \E v \in V, a \in BOOLEAN, io \in BOOLEAN, sh \in BOOLEAN : ErrorGrace(v, a, io, sh)
  \/ \E sh \in BOOLEAN : VisibilityPoll(sh)
  \/ \E sh \in BOOLEAN : IntersectionChange(sh)
  \/ ClockAdvance
  \/ \E v \in V, x \in Widths, e \in BOOLEAN, a \in BOOLEAN, io \in BOOLEAN, sh \in BOOLEAN :
       MediaReady(v, x, e, a, io, sh)
  \/ \E v \in V, c \in ErrorCodes : MediaError(v, c)
  \/ \E v \in V : VideoProgress(v)
  \/ \E v \in V : SeekDone(v)
  \/ ContextLost
  \/ \E s \in BOOLEAN : ContextRestored(s)
  \/ CanvasDetached
  \/ CanvasAttached
  \/ TickRenderError
  \/ \E h \in PauseHandlers : CallDestroyHandled(h)
  \/ \E h \in PauseHandlers : CallPauseHandled(h)
  \/ \E e \in SubscribedEvents, i \in SubscriberIds, th \in BOOLEAN : CallSubscribe(e, i, th)
  \/ \E e \in SubscribedEvents, i \in SubscriberIds : CallUnsubscribe(e, i)

Spec == Init /\ [][Next]_vars

\* ------------------------------------------------------------- a loaded player
\* The player once `new MagmaPlayer(...)` on an attached canvas has loaded both
\* files: construction, then the two sources report their data with no delay.
Loaded(autoplay, useWebGL) ==
  LET w0 == Constructed(TRUE, FALSE, autoplay, useWebGL, TRUE, TRUE)
      w1 == mediaReady(w0, "color", VideoWidth, TRUE, TRUE, TRUE, TRUE)
  IN mediaReady(w1, "mask", VideoWidth, TRUE, TRUE, TRUE, TRUE)

InitPlayback ==
  /\ now = ClockOrigin
  /\ \E autoplay \in BOOLEAN, useWebGL \in BOOLEAN :
       Begin(Loaded(autoplay, useWebGL), MaxCalls, MaxTicks)

\* playback of a loaded player: the caller's playback controls, the frame loop,
\* the clock and the two sources
NextPlayback ==
  \/ CallPlay(TRUE)
  \/ CallPause
  \/ \E r \in RateInputs : CallSetPlaybackRate(r)
  \/ \E b \in BOOLEAN : CallSetLoop(b)
  \/ \E n \in RepeatInputs : CallSetRepeatCount(n)
  \/ Tick(TRUE)
  \/ PlayNotify
  \/ StartSync
  \/ \E t \in timers.playSync : PlaySync(t)
  \/ ClockAdvance
  \/ \E v \in V : VideoProgress(v)
  \/ \E v \in V : SeekDone(v)

SpecPlayback == InitPlayback /\ [][NextPlayback]_vars

\* ------------------------------------------------------------- a finite repeat target
\* The caller sets the repeat count and the rate as soon as the player is ready
\* (in onReady), so playback starts from position 0 with the target in force.
InitRepeat ==
  /\ now = ClockOrigin
  /\ \E autoplay \in BOOLEAN, n \in RepeatTargets, r \in RateInputs :
       Begin(setPlaybackRate(setRepeatCount(Loaded(autoplay, TRUE), n), r),
             MaxRepeatCalls, MaxRepeatTicks)

\* what the caller does before the end: pause(), play(), setPlaybackRate()
NextRepeat ==
  \/ CallPlay(TRUE)
  \/ CallPause
  \/ \E r \in RateInputs : CallSetPlaybackRate(r)
  \/ Tick(TRUE)
  \/ PlayNotify
  \/ StartSync
  \/ \E t \in timers.playSync : PlaySync(t)
  \/ ClockAdvance
  \/ \E v \in V : VideoProgress(v)
  \/ \E v \in V : SeekDone(v)

SpecRepeat == InitRepeat /\ [][NextRepeat]_vars

\* ------------------------------------------------------------- construction to destroy
\* The life cycle of a player that renders with WebGL: init() and destroy() by
\* the caller, the canvas wait, the load pipeline and the visibility watchers.
\* The platform grants play() and its shaders compile; the clock stands still.
InitLifecycle ==
  /\ now = ClockOrigin
  /\ \E canvas \in BOOLEAN, waitForCanvas \in BOOLEAN, autoplay \in BOOLEAN :
       Begin(Constructed(canvas, waitForCanvas, autoplay, TRUE, TRUE, TRUE),
             MaxLoadCalls, 0)

NextLifecycle ==
  \/ CallInit(TRUE, TRUE)
  \/ CallDestroy
  \/ PlayNotify
  \/ StartSync
  \/ \E f \in BOOLEAN, e \in BOOLEAN : CheckCanvas(f, e, TRUE, TRUE)
  \/ \E v \in V, io \in BOOLEAN : LoadTimeout(v, TRUE, io, TRUE)
  \/ \E v \in V, io \in BOOLEAN : LoadPoll(v, TRUE, io, TRUE)
  \/ \E v \in V, io \in BOOLEAN : ErrorGrace(v, TRUE, io, TRUE)
  \/ \E sh \in BOOLEAN : VisibilityPoll(sh)
  \/ \E sh \in BOOLEAN : IntersectionChange(sh)
  \/ \E v \in V, x \in Widths, e \in BOOLEAN, io \in BOOLEAN : MediaReady(v, x, e, TRUE, io, TRUE)
  \/ \E v \in V, c \in ErrorCodes : MediaError(v, c)

SpecLifecycle == InitLifecycle /\ [][NextLifecycle]_vars

\* ------------------------------------------------------------- two unequal files
\* A player on an attached canvas whose two files may differ in duration and in
\* width, constructed with strictDuration or without: the load of the two
\* sources, then playback.
InitValidate ==
  /\ now = ClockOrigin
  /\ \E autoplay \in BOOLEAN, strict \in BOOLEAN :
       Begin([Constructed(TRUE, FALSE, autoplay, TRUE, TRUE, TRUE)
                EXCEPT !.p.strictDuration = strict],
             MaxValidateCalls, MaxValidateTicks)

NextValidate ==
  \/ CallPlay(TRUE)
  \/ CallPause
  \/ Tick(TRUE)
  \/ PlayNotify
  \/ StartSync
  \/ \E t \in timers.playSync : PlaySync(t)
  \/ ClockAdvance
  \/ \E v \in V, x \in FrameWidths, d \in Durations :
       MediaReadyWith(v, x, d, TRUE, TRUE, TRUE, TRUE)
  \/ \E v \in V : VideoProgress(v)
  \/ \E v \in V : SeekDone(v)

SpecValidate == InitValidate /\ [][NextValidate]_vars

\* ------------------------------------------------------------- GPU failures
\* A player on an attached canvas, with the GPU requested or not, on a platform
\* that may refuse the context or fail to build the shader program: the load of
\* the two sources, playback, and the loss and the return of the context.
InitBackend ==
  /\ now = ClockOrigin
  /\ \E autoplay \in BOOLEAN, useWebGL \in BOOLEAN, glAvail \in BOOLEAN,
        shaderOK \in BOOLEAN :
       Begin(Constructed(TRUE, FALSE, autoplay, useWebGL, glAvail, shaderOK),
             MaxBackendCalls, MaxBackendTicks)

NextBackend ==
  \/ CallPlay(TRUE)
  \/ CallPause
  \/ Tick(TRUE)
  \/ PlayNotify
  \/ StartSync
  \/ \E t \in timers.playSync : PlaySync(t)
  \/ ClockAdvance
  \/ \E v \in V : MediaReady(v, VideoWidth, TRUE, TRUE, TRUE, TRUE)
  \/ \E v \in V : VideoProgress(v)
  \/ \E v \in V : SeekDone(v)
  \/ ContextLost
  \/ \E s \in BOOLEAN : ContextRestored(s)
  \/ TickRenderError

SpecBackend == InitBackend /\ [][NextBackend]_vars

\* ------------------------------------------------------------- seeking
\* A loaded player at one of the rates, and a caller that seeks, resets, plays
\* and pauses.  A timer that is armed fires unless it is cleared: the seek
\* timeout is weakly fair.  The sources owe no `seeked` event.
InitSeek ==
  /\ now = ClockOrigin
  /\ \E autoplay \in BOOLEAN, r \in SeekRates :
       Begin(setPlaybackRate(Loaded(autoplay, TRUE), r), MaxSeekCalls, MaxSeekTicks)

NextSeek ==
  \/ \E t \in SeekTargets : CallSeek(t)
  \/ CallReset
  \/ CallPlay(TRUE)
  \/ CallPause
  \/ Tick(TRUE)
  \/ PlayNotify
  \/ StartSync
  \/ \E t \in timers.playSync : PlaySync(t)
  \/ SeekTimeout
  \/ ClockAdvance
  \/ \E v \in V : VideoProgress(v)
  \/ \E v \in V : SeekDone(v)

SpecSeek == InitSeek /\ [][NextSeek]_vars /\ WF_vars(SeekTimeout)

\* ------------------------------------------------------------- the setters
\* A player whose canvas is there at construction or arrives later, and a caller
\* that sets the rate, the repeat count and the loop flag at any moment: before
\* the sources exist, while they load, while the player plays and after it ended.
InitSettings ==
  /\ now = ClockOrigin
  /\ \E canvas \in BOOLEAN, autoplay \in BOOLEAN :
       Begin(Constructed(canvas, TRUE, autoplay, TRUE, TRUE, TRUE),
             MaxSettingsCalls, MaxSettingsTicks)

NextSettings ==
  \/ \E r \in RateBoundary : CallSetPlaybackRate(r)
  \/ \E n \in CountInputs : CallSetRepeatCount(n)
  \/ \E b \in BOOLEAN : CallSetLoop(b)
  \/ CallPlay(TRUE)
  \/ CheckCanvas(TRUE, FALSE, TRUE, TRUE)
  \/ \E v \in V : MediaReady(v, VideoWidth, TRUE, TRUE, TRUE, TRUE)
  \/ Tick(TRUE)
  \/ PlayNotify
  \/ StartSync
  \/ \E t \in timers.playSync : PlaySync(t)
  \/ ClockAdvance
  \/ \E v \in V : SeekDone(v)

SpecSettings == InitSettings /\ [][NextSettings]_vars

\* ------------------------------------------------------------- rejected play requests
\* A player on an attached canvas on a platform that may reject a play request
\* of a source (autoplay policy): the load, the autoplay of start() and the
\* caller's play() and pause().
InitPermission ==
  /\ now = ClockOrigin
  /\ \E autoplay \in BOOLEAN :
       Begin(Constructed(TRUE, FALSE, autoplay, TRUE, TRUE, TRUE),
             MaxPermissionCalls, MaxPermissionTicks)

NextPermission ==
  \/ \E a \in BOOLEAN : CallPlay(a)
  \/ CallPause
  \/ Tick(TRUE)
  \/ PlayNotify
  \/ StartSync
  \/ \E t \in timers.playSync : PlaySync(t)
  \/ PlayCatch
  \/ ClockAdvance
  \/ \E v \in V, a \in BOOLEAN : MediaReady(v, VideoWidth, TRUE, a, TRUE, TRUE)
  \/ \E v \in V : VideoProgress(v)
  \/ \E v \in V : SeekDone(v)

SpecPermission == InitPermission /\ [][NextPermission]_vars

\* ------------------------------------------------------------- replay
\* An autoplaying player with a finite repeat target at a fast rate, so that
\* playback ends within a few frames, and a caller that calls reset() and
\* play().
InitReplay ==
  /\ now = ClockOrigin
  /\ \E n \in RepeatTargets, r \in ReplayRates :
       Begin(setPlaybackRate(setRepeatCount(Loaded(TRUE, TRUE), n), r),
             MaxReplayCalls, MaxReplayTicks)

NextReplay ==
  \/ CallReset
  \/ CallPlay(TRUE)
  \/ Tick(TRUE)
  \/ PlayNotify
  \/ StartSync
  \/ \E t \in timers.playSync : PlaySync(t)
  \/ SeekTimeout
  \/ ClockAdvance
  \/ \E v \in V : VideoProgress(v)
  \/ \E v \in V : SeekDone(v)

SpecReplay == InitReplay /\ [][NextReplay]_vars

\* ------------------------------------------------------------- the surface
\* A loaded player, constructed with pauseWhenHidden true or false, whose canvas
\* the page takes out of the document and puts back, and scrolls out of view
\* and back (IntersectionObserver), while the caller plays and pauses.
InitSurface ==
  /\ now = ClockOrigin
  /\ \E autoplay \in BOOLEAN, pauseWhenHidden \in BOOLEAN :
       Begin([Loaded(autoplay, TRUE) EXCEPT !.g.pauseWhenHidden = pauseWhenHidden],
             MaxSurfaceCalls, MaxSurfaceTicks)

NextSurface ==
  \/ CallPlay(TRUE)
  \/ CallPause
  \/ Tick(TRUE)
  \/ PlayNotify
  \/ StartSync
  \/ \E t \in timers.playSync : PlaySync(t)
  \/ ClockAdvance
  \/ \E v \in V : VideoProgress(v)
  \/ \E v \in V : SeekDone(v)
  \/ CanvasDetached
  \/ CanvasAttached
  \/ \E sh \in BOOLEAN : IntersectionChange(sh)

SpecSurface == InitSurface /\ [][NextSurface]_vars

\* ------------------------------------------------------------- the error callback
\* A player constructed with strictDuration and an onError callback that throws
\* or returns, on a canvas that is there, or is awaited, or is missing: the
\* canvas wait, the load of two files that may fail or differ in duration, the
\* canvas leaving the document, and play().  The clock stands still.
InitErrors ==
  /\ now = ClockOrigin
  /\ \E canvas \in BOOLEAN, waitForCanvas \in BOOLEAN, autoplay \in BOOLEAN,
        throws \in BOOLEAN :
       Begin(on(_initializeCanvas(
                  [NewWorld(canvas, waitForCanvas, autoplay, TRUE)
                     EXCEPT !.p.onErrorThrows = throws, !.p.strictDuration = TRUE],
                  TRUE, TRUE)),
             MaxErrorCalls, 0)

NextErrors ==
  \/ CallInit(TRUE, TRUE)
  \/ CallPlay(TRUE)
  \/ Tick(TRUE)
  \/ PlayNotify
  \/ StartSync
  \/ \E t \in timers.playSync : PlaySync(t)
  \/ \E f \in BOOLEAN, e \in BOOLEAN : CheckCanvas(f, e, TRUE, TRUE)
  \/ \E v \in V : LoadTimeout(v, TRUE, TRUE, TRUE)
  \/ \E v \in V : LoadPoll(v, TRUE, TRUE, TRUE)
  \/ \E v \in V : ErrorGrace(v, TRUE, TRUE, TRUE)
  \/ \E v \in V, d \in Durations : MediaReadyWith(v, VideoWidth, d, TRUE, TRUE, TRUE, TRUE)
  \/ \E v \in V, c \in ErrorCodes : MediaError(v, c)
  \/ \E v \in V : SeekDone(v)
  \/ CanvasDetached
  \/ CanvasAttached

SpecErrors == InitErrors /\ [][NextErrors]_vars

\* ------------------------------------------------------------- subscribers
\* A loaded player whose caller registers and removes callbacks, some of which
\* throw, and plays and pauses.  The clock stands still.
InitEvents ==
  /\ now = ClockOrigin
  /\ \E autoplay \in BOOLEAN : Begin(Loaded(autoplay, TRUE), MaxEventCalls, 0)

NextEvents ==
  \/ \E e \in SubscribedEvents, i \in SubscriberIds, th \in BOOLEAN : CallSubscribe(e, i, th)
  \/ \E e \in SubscribedEvents, i \in SubscriberIds : CallUnsubscribe(e, i)
  \/ CallPlay(TRUE)
  \/ CallPause
  \/ Tick(TRUE)
  \/ PlayNotify
  \/ StartSync
  \/ \E t \in timers.playSync : PlaySync(t)
  \/ \E v \in V : SeekDone(v)

SpecEvents == InitEvents /\ [][NextEvents]_vars

\* ------------------------------------------------------------- out of view
\* A loaded player that loops for ever at rate 1.0 or plays once at rate 4.0 (one
\* frame of the clock then passes the end of the file), whose canvas scrolls
\* out of view and back and leaves the document and returns, while the caller
\* plays and pauses.  The sources do not move on their own: they lag the clock.
InitHidden ==
  /\ now = ClockOrigin
  /\ \E autoplay \in BOOLEAN, once \in BOOLEAN :
       Begin(IF once
             THEN setPlaybackRate(setRepeatCount(Loaded(autoplay, TRUE), 1), MAX_RATE)
             ELSE Loaded(autoplay, TRUE),
             MaxSurfaceCalls, MaxSurfaceTicks)

NextHidden ==
  \/ CallPlay(TRUE)
  \/ CallPause
  \/ Tick(TRUE)
  \/ PlayNotify
  \/ StartSync
  \/ \E t \in timers.playSync : PlaySync(t)
  \/ ClockAdvance
  \/ \E v \in V : SeekDone(v)
  \/ CanvasDetached
  \/ CanvasAttached
  \/ \E sh \in BOOLEAN : IntersectionChange(sh)

SpecHidden == InitHidden /\ [][NextHidden]_vars

\* ------------------------------------------------------------- the load timers
\* A player on an attached canvas whose sources get their data, with the
\* loadeddata and canplay events or without, or report errors, in any order,
\* while the caller calls init() and destroy().  A timer that is armed fires
\* unless it is cleared: the 30 s timeout, the 100 ms poll and the 100 ms grace
\* timer of each load are weakly fair.
InitLoad ==
  /\ now = ClockOrigin
  /\ \E autoplay \in BOOLEAN :
       Begin(Constructed(TRUE, FALSE, autoplay, TRUE, TRUE, TRUE), MaxLoadCalls, 0)

NextLoad ==
  \/ CallInit(TRUE, TRUE)
  \/ CallDestroy
  \/ PlayNotify
  \/ StartSync
  \/ \E v \in V : LoadTimeout(v, TRUE, TRUE, TRUE)
  \/ \E v \in V : LoadPoll(v, TRUE, TRUE, TRUE)
  \/ \E v \in V : ErrorGrace(v, TRUE, TRUE, TRUE)
  \/ \E v \in V, e \in BOOLEAN : MediaReady(v, VideoWidth, e, TRUE, TRUE, TRUE)
  \/ \E v \in V, c \in ErrorCodes : MediaError(v, c)

SpecLoad ==
  /\ InitLoad /\ [][NextLoad]_vars
  /\ \A v \in V : /\ WF_vars(LoadTimeout(v, TRUE, TRUE, TRUE))
                   /\ WF_vars(LoadPoll(v, TRUE, TRUE, TRUE))
                   /\ WF_vars(ErrorGrace(v, TRUE, TRUE, TRUE))

\* ------------------------------------------------------------- reported positions
\* seek() targets before the start, inside and beyond the end of the file
PositionTargets == {0 - 32, 32, 64}
\* the repeat modes: infinite, once, count(2)
PositionModes == {0 - 1, 1, 2}

\* An autoplaying loaded player in one of the repeat modes at one of the rates,
\* and a caller that seeks (also to positions outside the file, which puts the
\* clock epoch in the future or more than one duration in the past), changes
\* the rate and plays.  The sources do not move on their own.
InitPosition ==
  /\ now = ClockOrigin
  /\ \E n \in PositionModes, r \in RateInputs :
       Begin(setPlaybackRate(setRepeatCount(Loaded(TRUE, TRUE), n), r),
             MaxPositionCalls, MaxPositionTicks)

NextPosition ==
  \/ \E t \in PositionTargets : CallSeek(t)
  \/ \E r \in RateInputs : CallSetPlaybackRate(r)
  \/ CallPlay(TRUE)
  \/ Tick(TRUE)
  \/ PlayNotify
  \/ StartSync
  \/ \E t \in timers.playSync : PlaySync(t)
  \/ SeekTimeout
  \/ ClockAdvance
  \/ \E v \in V : SeekDone(v)

SpecPosition == InitPosition /\ [][NextPosition]_vars

\* ------------------------------------------------------------- re-entrant subscribers
\* A player from construction on, whose caller calls init(), play(), pause() and
\* destroy(), with a subscriber of `pause` that does nothing or calls play()
\* from inside the event.  The clock stands still.
InitReentrant ==
  /\ now = ClockOrigin
  /\ \E autoplay \in BOOLEAN :
       Begin(Constructed(TRUE, FALSE, autoplay, TRUE, TRUE, TRUE), MaxReentrantCalls, 0)

NextReentrant ==
  \/ CallPlay(TRUE)
  \/ \E h \in PauseHandlers : CallPauseHandled(h)
  \/ \E h \in PauseHandlers : CallDestroyHandled(h)
  \/ Tick(TRUE)
  \/ PlayNotify
  \/ StartSync
  \/ \E t \in timers.playSync : PlaySync(t)
  \/ \E v \in V : MediaReady(v, VideoWidth, TRUE, TRUE, TRUE, TRUE)
  \/ \E v \in V : SeekDone(v)

SpecReentrant == InitReentrant /\ [][NextReentrant]_vars

\* ------------------------------------------------------------- the Angular component
\* MagmaPlayerComponent._cleanup
_cleanup(w) ==
  LET w1 == [w EXCEPT !.c._stateUpdateInterval = FALSE]
      w2 == IF w1.c._player THEN destroy(w1) ELSE w1
  IN [w2 EXCEPT !.c._player = FALSE,
                !.c.isPlaying = FALSE,
                !.c.isReady = FALSE,
                !.c.currentTime = 0,
                !.c.duration = 0]

\* the 500 ms interval fires
StateUpdateInterval ==
  /\ component._stateUpdateInterval
  /\ Step(stateUpdateInterval(World))

\* ngOnDestroy
ComponentCleanup ==
  /\ component._player
  /\ Step(_cleanup(World))

\* The component after _initializePlayer on a connected canvas: it holds a new
\* player whose sources are loading, and the interval is set.  Loading takes
\* any time: the interval may fire before, between and after the sources report.
InitComponent ==
  /\ now = ClockOrigin
  /\ \E autoplay \in BOOLEAN :
       Begin([Constructed(TRUE, FALSE, autoplay, TRUE, TRUE, TRUE) EXCEPT
                !.c = [NoComponent EXCEPT !._player = TRUE,
                                          !._stateUpdateInterval = TRUE]],
             MaxComponentCalls, MaxComponentTicks)

NextComponent ==
  \/ StateUpdateInterval
  \/ ComponentCleanup
  \/ CallPlay(TRUE)
  \/ CallPause
  \/ Tick(TRUE)
  \/ PlayNotify
  \/ StartSync
  \/ \E t \in timers.playSync : PlaySync(t)
  \/ ClockAdvance
  \/ \E v \in V : LoadTimeout(v, TRUE, TRUE, TRUE)
  \/ \E v \in V : LoadPoll(v, TRUE, TRUE, TRUE)
  \/ \E v \in V, e \in BOOLEAN : MediaReady(v, VideoWidth, e, TRUE, TRUE, TRUE)

SpecComponent == InitComponent /\ [][NextComponent]_vars

\* ------------------------------------------------------------- observers
isReady == player.isInitialized /\ player._readyEmitted

isPlaying == player._isPlaying

getCurrentTime ==
  IF ~player.isInitialized \/ ~player.colorVideo THEN 0 ELSE media["color"].currentTime

\* the position the tick computes from the clock: elapsedSeconds at this instant
targetPosition == elapsedSeconds(now, player.sharedClockStart, player.playbackRate)

getPlaybackRate == player.playbackRate

getRepeatCount == player.repeatTarget

getLoop == player.loop

getDuration ==
  IF ~player.isInitialized \/ ~player.colorVideo THEN 0 ELSE media["color"].duration

\* the last step called emit(e), the callback e or the compositor e
Emitted(e) == \E i \in 1..Len(out) : out[i].e = e

Count(e) == Cardinality({i \in 1..Len(out) : out[i].e = e})

\* the last step composited a frame
Composited == Emitted("renderWebGL") \/ Emitted("renderCanvas2D")

\* ------------------------------------------------------------- properties
\* C1: whenever a tick of the render loop composites a frame, neither source is
\* mid-seek and the positions of the color and the mask source differ by at most
\* the sync threshold.  (The frame is the last thing a tick does, so the state
\* after the tick is the state the compositor read.)
C1_CompositedInSync ==
  Composited =>
    /\ ~media["color"].seeking
    /\ ~media["mask"].seeking
    /\ Abs(media["color"].currentTime - media["mask"].currentTime) <= SYNC_THRESHOLD

\* C1 witness: a frame is composited at double rate while the two sources stand
\* one threshold apart
C1_Witness ==
  /\ Composited
  /\ player.playbackRate = 200
  /\ Abs(media["color"].currentTime - media["mask"].currentTime) = SYNC_THRESHOLD

\* C2: with a repeat target n >= 1 and playback started from 0, `ended` comes
\* after exactly n traversals of the duration, whatever pause()/play(),
\* setPlaybackRate() and drift corrections re-derive the clock epoch before the
\* end.  (The first `ended` of a run is the one judged.  Left aside: runs with a
\* seek, and runs that re-derive the epoch from a position at the very end of
\* the file.)
C2_ExactlyNTraversals ==
  (Emitted("ended") /\ ghost.ends = 1 /\ player.repeatTarget >= 1
     /\ ~ghost.edge /\ ~ghost.sought)
    => ghost.traversals = player.repeatTarget

\* C3: setRepeatCount(0) on a playing player leaves it not playing and emits
\* pause, and while the repeat target is 0 no step composites a frame, whatever
\* the step is.
C3_ZeroRepeatStops ==
  [][/\ (CallSetRepeatCount(0) /\ isPlaying) => (~isPlaying' /\ Emitted("pause")')
     /\ (player'.repeatTarget = 0) => ~Composited']_vars

\* C3 witness: the state setRepeatCount(0) leaves when it is the first call and
\* the player was playing: target 0, not playing, pause and nothing else emitted
C3_Witness ==
  /\ player.repeatTarget = 0
  /\ ~isPlaying
  /\ out = <<Ev("pause", 0, "")>>
  /\ ghost.callsLeft = MaxCalls - 1

\* C4: in every state with repeat target 0 the player is not playing, and no
\* step taken under repeat target 0 emits play.
C4_NeverPlayingAtZero ==
  player.repeatTarget = 0 => (~isPlaying /\ ~Emitted("play"))

\* destroy() has returned and the caller has called nothing since
Undisturbed == ghost.destroyed /\ ghost.callsLeft = ghost.destroyedAt

\* C5: once destroy() has returned, a step of a timer, an observer or an
\* asynchronous completion that was pending changes no field of the player and
\* emits or calls nothing (so it starts no initialization and the player does not
\* become ready or playing again).
C5_DestroyedIsQuiet ==
  [][(Undisturbed /\ ghost'.callsLeft = ghost.callsLeft)
       => (player' = player /\ out' = <<>>)]_vars

\* C6: a public operation other than destroy() called on a destroyed player is a
\* no-op: it creates no media source, starts no load, leaves the player, the
\* sources and the timers as they are, and emits nothing.
C6_DestroyedIsInert ==
  [][(Undisturbed /\ ghost'.callsLeft < ghost.callsLeft
                  /\ ghost'.destroyedAt = ghost.destroyedAt)
       => /\ player' = player
          /\ media' = media
          /\ loads' = loads
          /\ timers' = timers
          /\ out' = <<>>
          /\ ghost'.pairsCreated = ghost.pairsCreated]_vars

\* C7: destroy() called on a player that has been destroyed before, in whatever
\* state it is in by then, releases nothing, emits nothing and leaves the state
\* as it is.
C7_DestroyIdempotent ==
  [][(ghost.destroyed /\ ghost'.destroyedAt # ghost.destroyedAt)
       => /\ player' = player
          /\ media' = media
          /\ loads' = loads
          /\ timers' = timers
          /\ out' = <<>>
          /\ ghost'.released = ghost.released]_vars

\* C8: init() called while an initialization is in flight returns the promise of
\* that initialization, creates no media source and starts no load; a promise
\* keeps the outcome it settled with; and the step that settles it delivers
\* ready and onReady once (resolved), or its error and onError once (rejected).
C8_OneLoadSequence ==
  [][/\ (CallInit(TRUE, TRUE) /\ player._initializing)
          => /\ ghost'.returned = player._initPromise
             /\ ghost'.pairsCreated = ghost.pairsCreated
             /\ player' = player
             /\ media' = media
             /\ loads' = loads
             /\ promises' = promises
             /\ out' = <<>>
     /\ \A i \in DOMAIN promises :
          /\ promises[i] \notin {"none", "pending"} => promises'[i] = promises[i]
          /\ (promises[i] = "pending" /\ promises'[i] = "resolved")
               => /\ Count("ready")' <= 1
                  /\ Count("onReady")' <= 1
                  /\ Count("onError")' = 0
          /\ (promises[i] = "pending" /\ promises'[i] \notin {"pending", "resolved"})
               => /\ Count("onError")' = 1
                  /\ Count("ready")' = 0
                  /\ Count("onReady")' = 0]_vars

\* C8 witness: init() was called while an initialization was in flight, and that
\* one initialization, with its one pair of sources, has resolved
C8_Witness ==
  /\ ghost.joined
  /\ ghost.pairsCreated = 1
  /\ promises[1] = "resolved"
  /\ isReady

\* the load promise of source v resolved and the source can give a frame
SourceReady(v) ==
  /\ hasVideo(World, v)
  /\ loads[v].state = "ok"
  /\ media[v].readyState >= 2
  /\ media[v].videoWidth > 0

\* C9: ready is emitted, onReady is called and isReady() is true only when both
\* sources have loaded and the validation has passed; and while a source of the
\* load sequence has failed or timed out, none of the three happens.
C9_ReadyNeedsBoth ==
  /\ (Emitted("ready") \/ Emitted("onReady") \/ isReady) => \A v \in V : SourceReady(v)
  /\ (\E v \in V : loads[v].state \in {"VIDEO_LOAD_TIMEOUT", "VIDEO_LOAD_FAILED"})
       => (~isReady /\ ~Emitted("ready") /\ ~Emitted("onReady"))

\* C9 witness: ready and onReady are delivered by the second load sequence, the
\* first one having failed
C9_Witness ==
  /\ Emitted("ready")
  /\ Emitted("onReady")
  /\ isReady
  /\ ghost.inits = 2
  /\ promises[1] \in {"VIDEO_LOAD_TIMEOUT", "VIDEO_LOAD_FAILED"}

\* C10: ready is emitted at most once and onReady is called at most once for one
\* player, and isReady() is true in the state each of them is delivered in.
C10_ReadyOnce ==
  /\ ghost.readyEmits <= 1
  /\ ghost.onReadyCalls <= 1
  /\ (Emitted("ready") \/ Emitted("onReady")) => isReady

\* the source v of the current load sequence can give a frame, or its load or the
\* whole initialization has been recorded as done: what the timer re-checks
ReadyAtTimeout(v) ==
  \/ player.isInitialized
  \/ isLoaded(World, v)
  \/ (hasVideo(World, v) /\ media[v].readyState >= 2)

\* the last step delivered an error or a callback with this code
Delivered(code) == \E i \in 1..Len(out) : out[i].code = code

\* C11: when the load timeout of a source fires and the source is ready by then
\* (or the player is initialized), the load does not fail: a pending load
\* resolves and is recorded as loaded, and no VIDEO_LOAD_TIMEOUT is delivered;
\* a load becomes VIDEO_LOAD_TIMEOUT, and the error is delivered, only in a step
\* of a timeout that finds its source not ready.
C11_StaleTimeoutResolves ==
  [][/\ \A v \in V :
          /\ ((\E io \in BOOLEAN : LoadTimeout(v, TRUE, io, TRUE)) /\ ReadyAtTimeout(v))
               => /\ loads'[v].state # "VIDEO_LOAD_TIMEOUT"
                  /\ (loads[v].state = "pending")
                       => (loads'[v].state = "ok" /\ isLoaded(World, v)')
                  /\ ~Delivered("VIDEO_LOAD_TIMEOUT")'
          /\ (loads'[v].state = "VIDEO_LOAD_TIMEOUT" /\ loads[v].state # "VIDEO_LOAD_TIMEOUT")
               => /\ \E io \in BOOLEAN : LoadTimeout(v, TRUE, io, TRUE)
                  /\ ~ReadyAtTimeout(v)
     /\ Delivered("VIDEO_LOAD_TIMEOUT")'
          => \E v \in V : /\ \E io \in BOOLEAN : LoadTimeout(v, TRUE, io, TRUE)
                          /\ ~ReadyAtTimeout(v)]_vars

\* C11 witness: the player is ready although the load of a source was settled
\* by its timeout (only the timeout resolves a load and leaves its poll running)
C11_Witness ==
  /\ isReady
  /\ \E v \in V : loads[v].state = "ok" /\ loads[v].poll /\ ~loads[v].timeout

\* both sources have their data and their durations differ by more than 0.1 s
DurationMismatch ==
  /\ \A v \in V : hasVideo(World, v) /\ media[v].readyState >= 2
  /\ Abs(media["color"].duration - media["mask"].duration) > DURATION_EPSILON

\* both sources have their data and their (non-zero) widths differ
DimensionMismatch ==
  /\ \A v \in V : hasVideo(World, v) /\ media[v].readyState >= 2
                  /\ media[v].videoWidth > 0
  /\ media["color"].videoWidth # media["mask"].videoWidth

\* the last step delivered e (an event or a callback) with this code
DeliveredAs(e, code) == \E i \in 1..Len(out) : out[i].e = e /\ out[i].code = code

BothLoaded == \A v \in V : loads[v].state = "ok"

\* C12: with strictDuration and durations more than 0.1 s apart, the step that
\* settles the initialization rejects it with DURATION_MISMATCH, delivers that
\* error through the error event and onError, and delivers neither ready nor
\* onReady; and from then on the player is not ready, its render loop is not
\* scheduled and nothing plays, whatever is called.
C12_StrictMismatchFails ==
  [][/\ (/\ player.strictDuration
         /\ promises[1] = "pending" /\ promises'[1] # "pending"
         /\ BothLoaded' /\ DurationMismatch')
          => /\ promises'[1] = "DURATION_MISMATCH"
             /\ DeliveredAs("error", "DURATION_MISMATCH")'
             /\ DeliveredAs("onError", "DURATION_MISMATCH")'
             /\ ~Emitted("ready")' /\ ~Emitted("onReady")'
     /\ (promises'[1] = "DURATION_MISMATCH")
          => /\ ~isReady' /\ ~isPlaying'
             /\ ghost'.readyEmits = 0 /\ ghost'.onReadyCalls = 0
             /\ ~player'.animationFrameId
             /\ ~timers'.playNotify /\ ~timers'.startSync
             /\ \A v \in V : media'[v].paused
             /\ ~Composited' /\ ~Emitted("play")']_vars

\* C12 witness: the initialization of a strict player was rejected with
\* DURATION_MISMATCH and the caller has called play() or pause() since
C12_Witness ==
  /\ player.strictDuration
  /\ promises[1] = "DURATION_MISMATCH"
  /\ DurationMismatch
  /\ ghost.callsLeft < MaxValidateCalls

\* C13: without strictDuration and with durations more than 0.1 s apart, the
\* initialization succeeds, the step that emits ready delivers the mismatch as a
\* warning event, and the duration in force is the shorter one: getDuration()
\* returns it and the tick takes it as the length of a cycle.
C13_MismatchPinsShorter ==
  (~player.strictDuration /\ BothLoaded /\ DurationMismatch
     /\ \A v \in V : media[v].videoWidth > 0)
    => /\ promises[1] = "resolved"
       /\ isReady
       /\ Emitted("ready") => Emitted("warning")
       /\ getDuration = Min(media["color"].duration, media["mask"].duration)
       /\ videoDurationOf(World) = Min(media["color"].duration, media["mask"].duration)

\* C14: a mismatch of the dimensions does not stop the initialization: the step
\* that settles it delivers ready, delivers the mismatch as a warning event and
\* emits no error event, and with autoplay both sources are playing.
C14_DimensionMismatchWarns ==
  (BothLoaded /\ DimensionMismatch /\ ~(player.strictDuration /\ DurationMismatch))
    => /\ promises[1] = "resolved"
       /\ isReady
       /\ Emitted("ready")
            => /\ DeliveredAs("warning", "INVALID_INPUT")
               /\ ~Emitted("error")
               /\ player.autoplay => \A v \in V : ~media[v].paused

\* the player asked for the GPU, its initialization has asked the canvas for a
\* context, and it holds no GPU context although the canvas has not lost one
GpuUnavailable ==
  /\ player.useWebGL
  /\ ghost.inits > 0
  /\ ~player.gl
  /\ ~player.contextLost

\* C15: when the GPU context cannot be created or the shader program cannot be
\* built, during initialization or when the context is restored, the software
\* backend is the active backend and the failure is not emitted as an error;
\* and once such a player is ready, the frames it composites are composited by
\* the software backend.
C15_FallsBackToSoftware ==
  GpuUnavailable
    => /\ player.ctx
       /\ ~Emitted("error") /\ ~Emitted("onError")
       /\ ~Emitted("renderWebGL")

\* C16: when the GPU was requested and is unavailable, a WEBGL_INIT_FAILED report
\* has been delivered to the caller (as an event or through a callback).
C16_GpuFailureReported ==
  (player.useWebGL /\ ghost.gpuFailed) => ghost.gpuReported

\* the sources are ready and steady, the canvas has a width, the player is
\* visible and not seeking, and the frame throttle lets the next tick through
TickCanComposite ==
  /\ player.isInitialized /\ player.isVisible /\ ~player.isSeeking
  /\ player.canvasWidth > 0
  /\ player.canvasConnected
  /\ now - player.lastFrameTime >= frameInterval
  /\ \A v \in V : media[v].readyState >= 2 /\ ~media[v].seeking

\* C17: while the GPU context is lost, a tick composites nothing, emits no error
\* and leaves a playing player playing; the restore notification leaves the
\* player with an active backend (the GPU, or the software backend when the GPU
\* program cannot be rebuilt); and a later tick of the playing player whose
\* sources are steady where the clock expects them composites a frame.
C17_ContextLossSkipsThenResumes ==
  [][/\ (Tick(TRUE) /\ player.contextLost)
          => /\ ~Composited'
             /\ ~Emitted("error")' /\ ~Emitted("onError")'
             /\ isPlaying' = isPlaying
     /\ ((\E s \in BOOLEAN : ContextRestored(s)) /\ isPlaying)
          => (player'.gl \/ player'.ctx)
     /\ (/\ Tick(TRUE) /\ ghost.losses > 0 /\ ~player.contextLost
         /\ isPlaying /\ TickCanComposite
         /\ \A v \in V : ~media'[v].seeking)
          => Composited']_vars

\* C18: a tick of a ready player that has not composited a frame yet composites
\* one when the sources are steady, whether the player is playing or paused: the
\* poster frame of a player that does not autoplay.
C18_PosterFrame ==
  [][(/\ Tick(TRUE) /\ isReady /\ ~isPlaying /\ ~ghost.painted
      /\ (player.gl \/ player.ctx)
      /\ TickCanComposite)
       => ghost'.painted]_vars

\* C19: while the seeking flag is set the seek timeout of the most recent seek
\* is armed, and the flag is cleared in the end, whether or not the
\* sources ever report `seeked` and however the seeks overlap.
C19_SeekingFlagClears ==
  /\ [](player.isSeeking => player.seekTimeout)
  /\ (player.isSeeking ~> ~player.isSeeking)

\* C19 witness: two seeks overlapped, neither source has confirmed (both are
\* still seeking and the listeners of both seeks are registered), and the flag
\* has been cleared by the timeout
C19_Witness ==
  /\ Len(timers.seekers) = 2
  /\ \A v \in V : media[v].seeking
  /\ \A i \in 1..2 : timers.seekers[i].onColor /\ timers.seekers[i].onMask
  /\ ~player.isSeeking
  /\ ~player.seekTimeout

\* C20: seek(p) on an initialized paused player leaves getCurrentTime() within
\* the sync threshold of p and the clock epoch such that the position the clock
\* gives at that instant is p, at every rate; and as long as the player is not
\* started, getCurrentTime() stays within the threshold of p, whatever the
\* sources and the pending callbacks do.
C20_SeekSetsPosition ==
  [][/\ \A p \in SeekTargets :
          (CallSeek(p) /\ player.isInitialized /\ ~isPlaying)
            => /\ Abs(getCurrentTime' - p) <= SYNC_THRESHOLD
               /\ targetPosition' = p
     /\ (ghost'.pausedSeek # NULL /\ player'.isInitialized)
          => Abs(getCurrentTime' - ghost'.pausedSeek) <= SYNC_THRESHOLD]_vars

\* C20 witness: a paused player at the highest rate after seek(32) has converged:
\* both sources have reported, the flag is cleared, position and clock give 32
C20_Witness ==
  /\ ghost.sought
  /\ ~isPlaying
  /\ player.playbackRate = MAX_RATE
  /\ ~player.isSeeking
  /\ \A v \in V : ~media[v].seeking
  /\ ghost.pausedSeek = 32
  /\ getCurrentTime = 32
  /\ targetPosition = 32

\* the clamp of a rate to [0.25, 4.0]
Clamped(r) == IF r < MIN_RATE THEN MIN_RATE ELSE IF r > MAX_RATE THEN MAX_RATE ELSE r

\* C21: setPlaybackRate(r) stores r clamped to [0.25, 4.0] and reports nothing,
\* whatever r is and whatever state the player is in; in every state
\* getPlaybackRate() is within [0.25, 4.0] and each source the player holds
\* carries that rate.
C21_RateClamped ==
  /\ [](/\ getPlaybackRate >= MIN_RATE
        /\ getPlaybackRate <= MAX_RATE
        /\ \A v \in V : hasVideo(World, v) => media[v].playbackRate = getPlaybackRate)
  /\ [][\A r \in RateBoundary :
          CallSetPlaybackRate(r) => (getPlaybackRate' = Clamped(r) /\ out' = <<>>)]_vars

\* C21 witness: a playing player whose rate and whose sources' rates are 4.0;
\* the only input that yields 4.0 is 10
C21_Witness ==
  /\ isPlaying
  /\ getPlaybackRate = MAX_RATE
  /\ \A v \in V : hasVideo(World, v) /\ media[v].playbackRate = MAX_RATE

\* C22: setRepeatCount(n) leaves getRepeatCount() = n and the counter of
\* completed iterations at 0, for n in {-1, 0, 1, 5} and in every state of the
\* player.
C22_RepeatRoundTrip ==
  [][\A n \in CountInputs :
       CallSetRepeatCount(n) => (getRepeatCount' = n /\ player'.repeatCount = 0)]_vars

\* C22 witness: the render loop has counted a completed iteration under the
\* clock epoch in force, and the counter is 0 again with a target of 1: the
\* state setRepeatCount(1) leaves on a playing player in its second iteration
C22_Witness ==
  /\ ghost.epochCycle >= 1
  /\ player.repeatCount = 0
  /\ getRepeatCount = 1
  /\ isPlaying

\* C30: in every state getLoop() is true exactly when getRepeatCount() is -1 and
\* each source the player holds has its native loop flag equal to getLoop();
\* setLoop(true) selects the infinite policy, setLoop(false) sets the target to 0
\* when it was infinite and leaves it alone otherwise.
C30_LoopIsInfinitePolicy ==
  /\ [](/\ getLoop <=> (getRepeatCount = 0 - 1)
        /\ \A v \in V : hasVideo(World, v) => media[v].loop = getLoop)
  /\ [][/\ CallSetLoop(TRUE) => getRepeatCount' = 0 - 1
        /\ CallSetLoop(FALSE) =>
             getRepeatCount' = (IF getRepeatCount = 0 - 1 THEN 0 ELSE getRepeatCount)]_vars

\* C30 witness: setLoop(false) on a player with target 5 has kept the target,
\* and the sources exist with native looping off
C30_Witness ==
  /\ getRepeatCount = 5
  /\ ~getLoop
  /\ \A v \in V : hasVideo(World, v) /\ ~media[v].loop
  /\ ghost.callsLeft = MaxSettingsCalls - 2

\* the step is the one in which the load completes and start() runs, with the
\* platform rejecting the play requests of start()
AutoplayRejected ==
  /\ \E v \in V : MediaReady(v, VideoWidth, TRUE, FALSE, TRUE, TRUE)
  /\ player.autoplay
  /\ ~player.isInitialized
  /\ player'.isInitialized

\* C23: no step delivers the rejection of a play request as an error event;
\* a play() the platform rejects leaves isPlaying() true and has emitted play,
\* and a rejected autoplay leaves isPlaying() true with the play notification
\* scheduled.
C23_RejectedPlayNotSurfaced ==
  /\ [](~DeliveredAs("error", "NotAllowedError"))
  /\ [][/\ (CallPlay(FALSE) /\ player.isInitialized /\ ~isPlaying)
            => (isPlaying' /\ Emitted("play")')
        /\ AutoplayRejected => (isPlaying' /\ timers'.playNotify)]_vars

\* the next tick gets as far as the repeat policy and finds its terminal
\* condition: target 1 with the clock's position at the duration, or target n
\* with the cycle index at n
TerminalReached ==
  /\ isPlaying /\ player.isInitialized /\ player.isVisible /\ ~player.isSeeking
  /\ player.canvasWidth > 0
  /\ player.canvasConnected
  /\ now - player.lastFrameTime >= frameInterval
  /\ \A v \in V : media[v].readyState >= 2
  /\ player.repeatTarget >= 1
  /\ targetPosition >= player.repeatTarget * videoDurationOf(World)

\* C24: a tick that finds the terminal condition emits ended; a step that emits
\* ended emits it once and leaves the player not playing with both sources
\* paused; and from then on, while the player is not playing, no step emits
\* ended or timeupdate or composites a frame.
C24_EndedOnceThenQuiet ==
  [][/\ (Tick(TRUE) /\ TerminalReached) => Emitted("ended")'
     /\ Emitted("ended")' =>
          (~isPlaying' /\ Count("ended")' = 1 /\ \A v \in V : media'[v].paused)
     /\ (ghost.ends > 0 /\ ~isPlaying) =>
          ~(Emitted("ended")' \/ Emitted("timeupdate")' \/ Composited')]_vars

\* C24 witness: playback with target 2 has ended once after two traversals, and
\* a later step has found the player ended and has emitted nothing
C24_Witness ==
  /\ ghost.ends = 1
  /\ ghost.traversals = 2
  /\ player.repeatTarget = 2
  /\ ~isPlaying
  /\ \A v \in V : media[v].paused
  /\ player.lastFrameTime = now
  /\ out = <<>>

\* C25: play() after a reset() in the ended state leaves the player playing with
\* the clock's position, the reported position and the counter of completed
\* iterations at 0; and the `ended` of that replay comes after exactly n
\* traversals of the duration, n being the repeat target.
C25_ReplayFromZero ==
  /\ [][(CallPlay(TRUE) /\ ghost.run = "reset") =>
          /\ isPlaying'
          /\ targetPosition' = 0
          /\ getCurrentTime' = 0
          /\ player'.repeatCount = 0]_vars
  /\ []((Emitted("ended") /\ ghost.run = "replayEnded" /\ ~ghost.edge)
          => ghost.traversals = player.repeatTarget)

\* C26: a tick that finds the canvas out of the document while the player is
\* playing leaves the player not playing with both sources paused, emits one
\* CANVAS_REMOVED warning and composites nothing; a tick that finds the canvas
\* out of the document while the player is not playing emits nothing and
\* changes neither the sources nor the clock epoch; and a player that is not
\* playing starts playing by a play() call only, so not by the return of the
\* canvas.
C26_DetachPausesAndWarnsOnce ==
  [][/\ (Tick(TRUE) /\ ~player.canvasConnected /\ isPlaying) =>
          /\ ~isPlaying'
          /\ \A v \in V : media'[v].paused
          /\ Count("warning")' = 1
          /\ DeliveredAs("warning", "CANVAS_REMOVED")'
          /\ ~Composited'
     /\ (Tick(TRUE) /\ ~player.canvasConnected /\ ~isPlaying) =>
          /\ out' = <<>>
          /\ media' = media
          /\ player'.sharedClockStart = player.sharedClockStart
     /\ (~isPlaying /\ isPlaying') => CallPlay(TRUE)]_vars

\* C26 witness: an autoplaying player the caller never paused is not playing,
\* its canvas was out of the document once and is back, and a tick has run
\* in the current frame and has emitted nothing
C26_Witness ==
  /\ player.autoplay
  /\ ghost.callsLeft = MaxSurfaceCalls
  /\ ghost.detaches = 1
  /\ player.canvasConnected
  /\ ~isPlaying
  /\ player.lastFrameTime = now
  /\ now > ClockOrigin
  /\ out = <<>>

\* the sources are ready and steady, the attached canvas has a width, the
\* player is not seeking and the frame throttle lets the next tick through:
\* all that a tick needs to composite, the visibility of the canvas left aside
FrameDue ==
  /\ player.isInitialized /\ ~player.isSeeking
  /\ player.canvasWidth > 0
  /\ player.canvasConnected
  /\ now - player.lastFrameTime >= frameInterval
  /\ \A v \in V : media[v].readyState >= 2 /\ ~media[v].seeking

\* C29: a tick of a playing player constructed with pauseWhenHidden false,
\* whose canvas is out of view and whose sources are steady where the clock
\* expects them, composites a frame; a tick of a player constructed with
\* pauseWhenHidden true whose canvas is out of view composites nothing.
C29_PauseWhenHiddenOption ==
  [][/\ (/\ Tick(TRUE) /\ ~ghost.pauseWhenHidden /\ ~player.isVisible
         /\ isPlaying /\ FrameDue
         /\ \A v \in V : ~media'[v].seeking)
          => Composited'
     /\ (Tick(TRUE) /\ ghost.pauseWhenHidden /\ ~player.isVisible)
          => ~Composited']_vars

\* a failure with this code was passed to onError in the last step
ReportedToCallback(code) == DeliveredAs("onError", code)

\* a failure with this code was emitted as an event in the last step
ReportedAsEvent(code) == DeliveredAs("error", code) \/ DeliveredAs("warning", code)

\* C27: every failure passed to onError in a step is emitted as an event with
\* the same code in that step, whether onError throws or returns; and the step
\* that starts the player (Initializing to Ready) emits `ready`, whether an
\* onError call made inside it throws or returns.
C27_CallbackFailuresAlsoEmitted ==
  /\ [](\A code \in {"INVALID_INPUT", "VIDEO_LOAD_FAILED", "VIDEO_LOAD_TIMEOUT",
                      "DURATION_MISMATCH", "CANVAS_REMOVED"} :
          ReportedToCallback(code) => ReportedAsEvent(code))
  /\ [][(~player.isInitialized /\ player'.isInitialized) => isReady']_vars

\* the callbacks called for an event in the last step, in the order of the calls
InvokedFor(event) ==
  LET calls == SelectSeq(out, LAMBDA x : x.e = "subscriber" /\ x.code = event)
  IN [i \in 1..Len(calls) |-> calls[i].t]

\* the callbacks registered for an event, in the order of their registration
RegisteredFor(event) ==
  LET subs == SelectSeq(player.subscribers, LAMBDA s : s.event = event)
  IN [i \in 1..Len(subs) |-> subs[i].id]

\* a callback that throws is registered for the event
HasThrower(event) ==
  \E i \in 1..Len(player.subscribers) :
    player.subscribers[i].event = event /\ player.subscribers[i].throws

\* C28: when an event is emitted, every callback registered for it is called,
\* in the order of registration, whether or not one of them throws, and no
\* callback is called for an event that was not emitted; and a pause() or a
\* play() whose event has a throwing subscriber still completes: after pause()
\* the player is not playing, both sources are paused and `pause` was emitted,
\* after play() the player is playing and `play` was emitted.
C28_ThrowingSubscriberIsolated ==
  /\ [](\A e \in SubscribedEvents :
          /\ Count(e) = 1 => InvokedFor(e) = RegisteredFor(e)
          /\ Count(e) = 0 => InvokedFor(e) = <<>>)
  /\ [][/\ (CallPause /\ HasThrower("pause")) =>
              /\ ~isPlaying'
              /\ \A v \in V : media'[v].paused
              /\ Emitted("pause")'
        /\ (CallPlay(TRUE) /\ HasThrower("play") /\ ~isPlaying) =>
              /\ isPlaying'
              /\ Emitted("play")']_vars

\* C28 witness: pause() was called with a throwing callback registered for
\* `pause` before another one; both were called, the thrower first, and the
\* player is paused
C28_Witness ==
  /\ Emitted("pause")
  /\ Len(RegisteredFor("pause")) >= 2
  /\ \E i \in 1..Len(player.subscribers) :
        /\ player.subscribers[i].event = "pause" /\ player.subscribers[i].throws
        /\ \E j \in (i + 1)..Len(player.subscribers) :
              player.subscribers[j].event = "pause" /\ ~player.subscribers[j].throws
  /\ InvokedFor("pause") = RegisteredFor("pause")
  /\ ~isPlaying
  /\ \A v \in V : media[v].paused

\* C31: a tick that runs while the seeking flag is set moves no source, leaves
\* the clock epoch as it is, emits no timeupdate and no ended, and composites
\* nothing.
C31_SeekingTickIsIdle ==
  [][(Tick(TRUE) /\ player.isSeeking) =>
        /\ \A v \in V : media'[v].currentTime = media[v].currentTime
        /\ player'.sharedClockStart = player.sharedClockStart
        /\ ~Emitted("timeupdate")' /\ ~Emitted("ended")'
        /\ ~Composited']_vars

\* C31 witness: a playing, visible player with ready sources whose only call
\* was a seek() is still seeking, and a tick has passed the frame throttle in
\* the current frame without a timeupdate
C31_Witness ==
  /\ player.isSeeking /\ isPlaying /\ player.isVisible
  /\ ghost.callsLeft = MaxSeekCalls - 1
  /\ \A v \in V : media[v].readyState >= 2
  /\ now > ClockOrigin
  /\ player.lastFrameTime = now
  /\ player.lastTimeUpdate < now
  /\ out = <<>>

\* the last step moved no source, left the clock epoch, the iteration counter
\* and the playing state as they were, emitted no timeupdate and no ended and
\* composited nothing
IdleStep ==
  /\ media' = media
  /\ player'.sharedClockStart = player.sharedClockStart
  /\ player'.repeatCount = player.repeatCount
  /\ isPlaying' = isPlaying
  /\ ~Emitted("timeupdate")' /\ ~Emitted("ended")'
  /\ ~Composited'

\* C32 as stated: a tick that runs while the canvas is flagged not visible moves
\* no source, emits no timeupdate and no ended, composites nothing and leaves
\* the clock epoch, the iteration counter and the playing state as they were.
C32_HiddenTickIsNoOp ==
  [][(Tick(TRUE) /\ ~player.isVisible) => IdleStep]_vars

\* C32 amended: a tick that runs while the canvas is flagged not visible and is
\* in the document moves no source, emits no timeupdate and no ended,
\* composites nothing and leaves the clock epoch, the iteration counter and
\* the playing state as they were.
C32_HiddenAttachedTickIsNoOp ==
  [][(Tick(TRUE) /\ ~player.isVisible /\ player.canvasConnected) => IdleStep]_vars

\* C32 witness: a play-once player at rate 4.0 whose canvas never left the
\* document is out of view and still playing with its clock past the end of
\* the file, its sources behind, after a tick that passed the throttle in the
\* current frame
C32_Witness ==
  /\ ~player.isVisible /\ isPlaying /\ ~player.isSeeking
  /\ ghost.detaches = 0
  /\ player.repeatTarget = 1 /\ player.playbackRate = MAX_RATE
  /\ \A v \in V : media[v].readyState >= 2 /\ ~media[v].seeking /\ media[v].currentTime = 0
  /\ now - player.sharedClockStart >= Frame
  /\ player.lastFrameTime = now
  /\ out = <<>>

\* the load promise of source v has settled
LoadSettled(v) == loads[v].state \in {"ok", "VIDEO_LOAD_TIMEOUT", "VIDEO_LOAD_FAILED"}

\* C33: a load promise that is pending settles in the end, a settled one keeps
\* its outcome for as long as no new load sequence starts, and the promise of
\* every init() that is pending settles in the end (ready or error), whatever
\* the order of the readiness, error and timer signals.
C33_LoadsSettleOnce ==
  /\ \A v \in V : (loads[v].state = "pending") ~> LoadSettled(v)
  /\ \A i \in 1..MaxInits : (promises[i] = "pending") ~> (promises[i] # "pending")
  /\ [][\A v \in V : (LoadSettled(v) /\ ghost'.inits = ghost.inits)
                        => loads'[v].state = loads[v].state]_vars

\* C34: the step in which a source reports an error settles no load and no
\* init() and emits no error; a load becomes VIDEO_LOAD_FAILED only in a run of
\* the grace timer that finds the source not ready and with a non-zero error
\* code; and a run of the grace timer that finds the pending load's source
\* ready resolves the load.
C34_ErrorSignalNotFatal ==
  [][\A v \in V :
       /\ (\E c \in ErrorCodes : MediaError(v, c)) =>
             /\ loads'[v].state = loads[v].state
             /\ promises' = promises
             /\ ~Emitted("error")' /\ ~Emitted("onError")'
       /\ (loads[v].state # "VIDEO_LOAD_FAILED" /\ loads'[v].state = "VIDEO_LOAD_FAILED") =>
             /\ ErrorGrace(v, TRUE, TRUE, TRUE)
             /\ hasVideo(World, v)
             /\ media[v].readyState < 2
             /\ media[v].error # 0
       /\ (/\ ErrorGrace(v, TRUE, TRUE, TRUE) /\ loads[v].state = "pending"
           /\ hasVideo(World, v) /\ media[v].readyState >= 2) =>
             loads'[v].state = "ok"]_vars

\* C34 witness: a source reported an error with a non-zero code, got its data
\* within the grace window, and the grace timer has resolved its load; the
\* player is ready
C34_Witness ==
  /\ isReady
  /\ \E v \in V :
        /\ media[v].error # 0
        /\ media[v].readyState >= 2
        /\ loads[v].state = "ok"
        /\ ~loads[v].errListener /\ ~loads[v].grace

\* C35: every timeupdate event of a step carries a position p with
\* 0 <= p < getDuration(), in each repeat mode, after seeks and rate changes,
\* also when the clock epoch lies in the future.
C35_TimeupdateInRange ==
  \A i \in 1..Len(out) :
    out[i].e = "timeupdate" => (0 <= out[i].t /\ out[i].t < getDuration)

\* C35 witness: a timeupdate was emitted by a tick of a player whose clock
\* epoch lies in the future (the elapsed time is negative)
C35_Witness ==
  /\ Emitted("timeupdate")
  /\ isPlaying
  /\ player.sharedClockStart # NULL
  /\ now < player.sharedClockStart

\* C36: a step emits a pause event only if it takes the player from playing to
\* not playing, and then only one: pause() and reset() on a player that is
\* not playing emit no pause event.
C36_PauseOnlyOnTransition ==
  [][Emitted("pause")' => (isPlaying /\ ~isPlaying' /\ Count("pause")' = 1)]_vars

\* C37: whenever isPlaying() is true the player is initialized and both of its
\* sources exist, and isPlaying() is false once destroy() has returned, also
\* when a subscriber calls play() from inside an event.
C37_PlayingImpliesInitialized ==
  /\ isPlaying => (player.isInitialized /\ player.colorVideo /\ player.maskVideo)
  /\ ghost.destroyed => ~isPlaying

\* C38: the player never holds the GPU context and the 2d context at once,
\* through initialization, shader failure, render errors, context loss and
\* context restore.
C38_OneBackend == ~(player.gl /\ player.ctx)

\* C38 witness: a draw call of renderWebGL threw, the player asked the canvas
\* for a 2d context, and it still holds the GPU context only
C38_Witness ==
  /\ Emitted("renderError")
  /\ player.gl /\ ~player.ctx
  /\ player.canvasContext = "webgl"

\* C39: each `seeked` event reports the position of the most recent seek()
\* call, and no more `seeked` events are emitted than seek() calls are pending,
\* also when a seek() is issued before the one before it has completed.
C39_SeekedReportsLatestSeek ==
  [][Emitted("seeked")' =>
       /\ timers.seekers # << >>
       /\ Count("seeked")' <= Len(timers.seekers)
       /\ \A i \in 1..Len(out') :
            out'[i].e = "seeked"
              => out'[i].t = timers.seekers[Len(timers.seekers)].time]_vars

\* C40: for as long as the component holds a player that is ready, its 500 ms
\* state refresh is set, however long loading took.
C40_RefreshRunsWhileHeld ==
  (component._player /\ isReady) => component._stateUpdateInterval

====
